---- MODULE Spec2Model ----
(***************************************************************************)
(* Model of src/publish-blog-post.py: the front-matter validator, the slug *)
(* generator, the image relocation pass and the BlogPublisher.publish      *)
(* workflow (parse, ensure front matter, review loop, bundle write,        *)
(* archive, git).                                                          *)
(*                                                                         *)
(* Encoding of Python values: every value is a record [k, v] where k is    *)
(* the Python type ("str", "list", "int", "ts" for a datetime object made  *)
(* by the YAML loader, "bool", "absent" for a key that is not in the dict) *)
(* and v is a sequence of strings: the characters of a str, the items of a *)
(* list.                                                                   *)
(***************************************************************************)
EXTENDS Integers, Sequences, FiniteSets, TLC

VARIABLES
    call,       \* a pure function under check: [op, in, out, done]
    pc,         \* position of the publish workflow
    dry_run,    \* BlogPublisher.dry_run
    fs,         \* the filesystem: content dir, bundle, archive, draft, assets, temp file
    fs0,        \* the filesystem when the program started (history)
    front_matter, \* publish(): the pending front matter
    body,       \* publish(): the parsed body
    extracted_title, \* publish(): title of the leading heading, <<>> when None
    content,    \* publish(): the `content` local, handed on as original_content
    post_slug,  \* publish(): the generated slug, <<>> before Finalize
    image_renames, \* _publish_content(): the renames process_images returned
    events,     \* history: the order of the publish events
    prompted,   \* history: an interactive prompt has been issued
    collected,  \* history: the front matter the last interactive collection returned
    git_ran,    \* history: a git command has run
    draft_path, \* publish(): the resolved path of the draft
    updated_body, \* _publish_content(): the body process_images returned
    failed_at,  \* history: the step that raised the fatal error, "" if none
    exit_code   \* process exit code, -1 while running

orchvars == <<pc, dry_run, fs, fs0, front_matter, body, extracted_title, content,
              post_slug, image_renames, events, prompted, collected, git_ran, draft_path,
          updated_body, failed_at, exit_code>>

vars == <<call, pc, dry_run, fs, fs0, front_matter, body, extracted_title, content,
          post_slug, image_renames, events, prompted, collected, git_ran, draft_path,
          updated_body, failed_at, exit_code>>

-----------------------------------------------------------------------------
(* Python values *)

Absent == [k |-> "absent", v |-> <<>>]

Str(s) == [k |-> "str", v |-> s]

List(l) == [k |-> "list", v |-> l]

IntVal == [k |-> "int", v |-> <<"2", "0", "2", "4">>]

Ts(s) == [k |-> "ts", v |-> s]

Bool(b) == [k |-> "bool", v |-> <<b>>]

Range(s) == {s[i] : i \in 1..Len(s)}

\* the sequences over S of length at most n
SeqUpTo(S, n) == UNION {[1..k -> S] : k \in 0..n}

-----------------------------------------------------------------------------
(* Front matter: a dict or None.  A dict is a record over FIELDS whose     *)
(* missing keys are Absent; "extra" stands for any key the tool does not   *)
(* know.                                                                   *)

FIELDS == {"title", "date", "categories", "tags", "type", "draft", "extra"}

EmptyDict == [isNone |-> FALSE, d |-> [f \in FIELDS |-> Absent]]

NoFrontmatter == [isNone |-> TRUE, d |-> [f \in FIELDS |-> Absent]]

Dict(d) == [isNone |-> FALSE, d |-> d]

\* `not frontmatter`: None and the empty dict are falsy
Falsy(frontmatter) ==
    frontmatter.isNone \/ \A f \in FIELDS : frontmatter.d[f] = Absent

Has(frontmatter, f) == ~frontmatter.isNone /\ frontmatter.d[f] # Absent

\* FrontmatterValidator.REQUIRED_FIELDS, in dict (insertion) order
REQUIRED_FIELDS ==
    << [field |-> "title", expected_type |-> "str"],
       [field |-> "categories", expected_type |-> "list"],
       [field |-> "tags", expected_type |-> "list"] >>

RECURSIVE validate_loop(_, _, _)
validate_loop(frontmatter, i, missing) ==
    IF i > Len(REQUIRED_FIELDS) THEN missing
    ELSE LET field == REQUIRED_FIELDS[i].field
             expected_type == REQUIRED_FIELDS[i].expected_type
         IN  IF frontmatter.d[field] = Absent
             THEN validate_loop(frontmatter, i + 1, Append(missing, <<field>>))
             ELSE IF frontmatter.d[field].k # expected_type
             THEN validate_loop(frontmatter, i + 1,
                                Append(missing, <<field, " (wrong type)">>))
             ELSE validate_loop(frontmatter, i + 1, missing)

\* mutant: the type of a present field is not checked
validate_no_type_check(frontmatter) ==
    IF Falsy(frontmatter)
    THEN [ok |-> FALSE, missing |-> << <<"all fields (no frontmatter)">> >>]
    ELSE LET missing == SelectSeq(<< <<"title">>, <<"categories">>, <<"tags">> >>,
                                  LAMBDA m : frontmatter.d[m[1]] = Absent)
         IN  [ok |-> Len(missing) = 0, missing |-> missing]

\* FrontmatterValidator.validate: (is_valid, missing_fields)
validate(frontmatter) ==
    IF Falsy(frontmatter)
    THEN [ok |-> FALSE, missing |-> << <<"all fields (no frontmatter)">> >>]
    ELSE LET missing == validate_loop(frontmatter, 1, <<>>)
         IN  [ok |-> Len(missing) = 0, missing |-> missing]

\* mutant: the defaults overwrite what is there
ensure_complete_overwrite(frontmatter, now) ==
    Dict([frontmatter.d EXCEPT !["date"] = Str(now),
                               !["type"] = Str(<<"blog">>),
                               !["draft"] = Bool("false")])

\* FrontmatterValidator.ensure_complete: date = now if missing, DEFAULTS by setdefault
ensure_complete(frontmatter, now) ==
    Dict([f \in FIELDS |->
            IF frontmatter.d[f] # Absent THEN frontmatter.d[f]
            ELSE CASE f = "date" -> Str(now)
                   [] f = "type" -> Str(<<"blog">>)
                   [] f = "draft" -> Bool("false")
                   [] OTHER -> Absent])

-----------------------------------------------------------------------------
(* Characters.  \w is [A-Za-z0-9_], \s is white space.                     *)

UpperLetters == {"A", "C", "M", "P"}

LowerLetters == {"a", "b", "c", "l", "m", "o", "p", "s", "t", "y"}

DigitChars == {"0", "1", "2", "3", "4", "5", "6", "7", "8", "9"}

IsWord(c) == c \in UpperLetters \cup LowerLetters \cup DigitChars \cup {"_"}

IsSpace(c) == c \in {" ", "\t"}

\* str.lower() on one character
lower(c) ==
    CASE c = "A" -> "a"
      [] c = "C" -> "c"
      [] c = "M" -> "m"
      [] c = "P" -> "p"
      [] OTHER -> c

Map(s, Op(_)) == [i \in 1..Len(s) |-> Op(s[i])]

\* re.sub(r'[^\w\s-]', '', s)
strip_non_word(s) ==
    SelectSeq(s, LAMBDA c : IsWord(c) \/ IsSpace(c) \/ c = "-")

\* mutant: every separator character becomes its own underscore
RECURSIVE collapse_each(_)
collapse_each(s) ==
    IF s = <<>> THEN <<>>
    ELSE IF s[1] = "-" \/ IsSpace(s[1]) THEN <<"_">> \o collapse_each(Tail(s))
    ELSE <<s[1]>> \o collapse_each(Tail(s))

RECURSIVE collapse_runs(_, _)
collapse_runs(s, in_run) ==
    IF s = <<>> THEN <<>>
    ELSE IF s[1] = "-" \/ IsSpace(s[1])
         THEN (IF in_run THEN <<>> ELSE <<"_">>) \o collapse_runs(Tail(s), TRUE)
         ELSE <<s[1]>> \o collapse_runs(Tail(s), FALSE)

\* re.sub(r'[-\s]+', '_', s)
collapse_separators(s) == collapse_runs(s, FALSE)

RECURSIVE lstrip(_, _)
lstrip(s, c) ==
    IF s # <<>> /\ s[1] = c THEN lstrip(Tail(s), c) ELSE s

RECURSIVE rstrip(_, _)
rstrip(s, c) ==
    IF s # <<>> /\ s[Len(s)] = c THEN rstrip(SubSeq(s, 1, Len(s) - 1), c) ELSE s

\* str.strip('_')
strip(s, c) == rstrip(lstrip(s, c), c)

\* date_str[:10].replace('-', '')
date_prefix(date_str) ==
    SelectSeq(SubSeq(date_str, 1, IF Len(date_str) < 10 THEN Len(date_str) ELSE 10),
              LAMBDA c : c # "-")

\* mutant: the underscores at the ends are kept
generate_slug_no_strip(title, date_str) ==
    date_prefix(date_str) \o <<"_">>
        \o collapse_separators(strip_non_word(Map(title, lower)))

\* BlogPublisher.generate_slug
generate_slug(title, date_str) ==
    date_prefix(date_str) \o <<"_">>
        \o strip(collapse_separators(strip_non_word(Map(title, lower))), "_")

-----------------------------------------------------------------------------
(* The filesystem.  A path is [root, sub, name]: root names a base          *)
(* directory, sub is the bundle directory below it (a slug, or <<>>), name  *)
(* is the file name as a sequence of strings (<<>> for the directory).      *)
(*   content    <hugo_root>/content/blog                                    *)
(*   drafts     the directory of a draft that is not yet archived           *)
(*   published  <drafts>/published, the archive                             *)
(*   assets     <drafts>/../assets                                          *)
(*   tmp        the directory of tempfile.NamedTemporaryFile                *)
(* fs is [dirs, files]: the directories that exist and the files, each      *)
(* [p, data].                                                               *)

Path(root, sub, name) == [root |-> root, sub |-> sub, name |-> name]

Dir(root, sub) == [root |-> root, sub |-> sub]

exists(f, p) == \E x \in f.files : x.p = p

read(f, p) == (CHOOSE x \in f.files : x.p = p).data

write(f, p, data) ==
    [f EXCEPT !.files = {x \in f.files : x.p # p} \cup {[p |-> p, data |-> data]}]

unlink(f, p) == [f EXCEPT !.files = {x \in f.files : x.p # p}]

\* Path.mkdir(parents=True, exist_ok=True)
mkdir(f, d) == [f EXCEPT !.dirs = f.dirs \cup {d, Dir(d.root, <<>>)}]

\* Path.replace: move src over dst
replace(f, src, dst) == unlink(write(f, dst, read(f, src)), src)

\* the files of one directory
iterdir(f, d) == {x \in f.files : x.p.root = d.root /\ x.p.sub = d.sub}

-----------------------------------------------------------------------------
(* Documents.  The body is a sequence of tokens: a line of text, a blank    *)
(* (empty) line, a line of spaces only, a level-one heading line "# text"   *)
(* or an image reference                                                    *)
(* ![alt](path) / ![alt](path "title").  An image path is a sequence of     *)
(* strings whose first element is its prefix and whose last is its suffix.  *)

Text(s) == [t |-> "text", alt |-> s, path |-> <<>>, title |-> FALSE]

Blank == [t |-> "blank", alt |-> <<>>, path |-> <<>>, title |-> FALSE]

Spaces == [t |-> "spaces", alt |-> <<>>, path |-> <<>>, title |-> FALSE]

H1(s) == [t |-> "h1", alt |-> s, path |-> <<>>, title |-> FALSE]

Img(alt, path, title) == [t |-> "img", alt |-> alt, path |-> path, title |-> title]

\* mutant: the canonical published-image prefix is not skipped
SKIP_PREFIXES_no_canonical == {"http://", "https://", "//"}

\* the prefixes process_images skips
SKIP_PREFIXES == {"http://", "https://", "//", "/images/blog/"}

\* re.findall(IMAGE_PATTERN, body): the (alt, path) pairs in document order
images_found(b) == SelectSeq(b, LAMBDA tok : tok.t = "img")

\* str.replace(old_ref, new_ref) with old_ref = "![alt](path)": every
\* untitled reference with this alt and path gets the new path
replace_ref(b, alt_text, img_path, new_name) ==
    [i \in 1..Len(b) |->
        IF b[i].t = "img" /\ ~b[i].title /\ b[i].alt = alt_text /\ b[i].path = img_path
        THEN [b[i] EXCEPT !.path = new_name]
        ELSE b[i]]

\* (draft_dir / img_path).resolve(): "../assets/" climbs one directory
resolve(draft_dir, img_path) ==
    IF img_path # <<>> /\ img_path[1] = "../assets/"
    THEN CASE draft_dir = Dir("drafts", <<>>) -> Path("assets", <<>>, Tail(img_path))
           [] draft_dir = Dir("published", <<>>) ->
                  Path("drafts", <<"assets">>, Tail(img_path))
           [] draft_dir.root = "published" /\ draft_dir.sub # <<>> ->
                  Path("published", <<"assets">>, Tail(img_path))
           [] OTHER -> Path("up", <<"..", "assets">>, Tail(img_path))
    ELSE Path(draft_dir.root, draft_dir.sub, img_path)

\* draft_dir.parent
parent(draft_dir) ==
    IF draft_dir.sub # <<>> THEN Dir(draft_dir.root, <<>>)
    ELSE IF draft_dir.root = "published" THEN Dir("drafts", <<>>)
    ELSE Dir("up", <<>>)

NoSource == Path("none", <<>>, <<>>)

\* mutant: the fallback location is tried for every draft
find_image_always_parent(f, draft_dir, img_path, is_in_published) ==
    LET source == resolve(draft_dir, img_path)
        source_parent == resolve(parent(draft_dir), img_path)
    IN  IF ~exists(f, source) /\ exists(f, source_parent)
        THEN source_parent
        ELSE IF exists(f, source) THEN source ELSE NoSource

\* BlogPublisher.find_image
find_image(f, draft_dir, img_path, is_in_published) ==
    LET source == resolve(draft_dir, img_path)
        source_parent == resolve(parent(draft_dir), img_path)
    IN  IF ~exists(f, source) /\ is_in_published /\ exists(f, source_parent)
        THEN source_parent
        ELSE IF exists(f, source) THEN source ELSE NoSource

\* Path.suffix
suffix(name) ==
    IF name # <<>> /\ name[Len(name)] \in {".png", ".jpg", ".gif"}
    THEN <<name[Len(name)]>> ELSE <<>>

DigitOf == <<"0", "1", "2", "3", "4", "5", "6", "7", "8", "9">>

RECURSIVE digits(_)
digits(n) ==
    IF n < 10 THEN <<DigitOf[n + 1]>> ELSE digits(n \div 10) \o <<DigitOf[(n % 10) + 1]>>

\* mutant: the number is not padded
format_plain(n) == digits(n)

\* f"{counter:02d}"
format_02d(n) == IF n < 10 THEN <<"0">> \o digits(n) ELSE digits(n)

-----------------------------------------------------------------------------
(* Images.  An image file is [kind, id, w, h, ok]: ok is whether PIL can    *)
(* open and re-encode it.                                                   *)

Image(id, w, h, ok) ==
    [kind |-> "img", id |-> id, w |-> w, h |-> h, ok |-> ok, resized |-> FALSE]

max_image_width == 2

\* mutant: an image as wide as the limit is resized too
optimize_image_resize_equal(data) ==
    LET new_height == (data.h * max_image_width) \div data.w
    IN  IF data.ok /\ data.w >= max_image_width /\ new_height > 0
        THEN [data EXCEPT !.w = max_image_width, !.h = new_height, !.resized = TRUE]
        ELSE data

\* BlogPublisher.optimize_image: the data written to dest.  new_height is
\* int(img.height * ratio), the product cut to an integer; an image PIL
\* cannot open or re-encode, and a resize to height 0 (which PIL refuses),
\* end in the except branch: shutil.copy2 of the source
optimize_image(data) ==
    LET new_height == (data.h * max_image_width) \div data.w
    IN  IF data.ok /\ data.w > max_image_width /\ new_height > 0
        THEN [data EXCEPT !.w = max_image_width, !.h = new_height, !.resized = TRUE]
        ELSE data

\* one pass of the loop of process_images over images_found[i..]
RECURSIVE process_loop(_, _, _, _)
process_loop(found, i, ctx, acc) ==
    IF i > Len(found) THEN acc
    ELSE LET alt_text == found[i].alt
             img_path == found[i].path
             source == find_image(acc.f, ctx.draft_dir, img_path, ctx.is_in_published)
         IN  IF img_path # <<>> /\ img_path[1] \in SKIP_PREFIXES
             THEN process_loop(found, i + 1, ctx, acc)
             ELSE IF source = NoSource
             THEN process_loop(found, i + 1, ctx, acc)
             ELSE LET ext == suffix(source.name)
                      clean_name == ctx.post_slug \o <<"-">> \o format_02d(acc.counter) \o ext
                      dest == Path(ctx.post_bundle_dir.root, ctx.post_bundle_dir.sub,
                                   clean_name)
                  IN  process_loop(found, i + 1, ctx,
                        [updated_body |-> replace_ref(acc.updated_body, alt_text,
                                                      img_path, clean_name),
                         image_renames |-> Append(acc.image_renames,
                                                  [old_path |-> img_path,
                                                   new_name |-> clean_name,
                                                   alt_text |-> alt_text]),
                         counter |-> acc.counter + 1,
                         f |-> IF ctx.dry_run THEN acc.f
                               ELSE write(acc.f, dest, optimize_image(read(acc.f, source)))])

\* mutant: the counter advances for every reference, processed or not
RECURSIVE process_loop_count_all(_, _, _, _)
process_loop_count_all(found, i, ctx, acc) ==
    IF i > Len(found) THEN acc
    ELSE LET alt_text == found[i].alt
             img_path == found[i].path
             source == find_image(acc.f, ctx.draft_dir, img_path, ctx.is_in_published)
         IN  IF (img_path # <<>> /\ img_path[1] \in SKIP_PREFIXES) \/ source = NoSource
             THEN process_loop_count_all(found, i + 1, ctx,
                                         [acc EXCEPT !.counter = acc.counter + 1])
             ELSE LET ext == suffix(source.name)
                      clean_name == ctx.post_slug \o <<"-">> \o format_02d(acc.counter) \o ext
                      dest == Path(ctx.post_bundle_dir.root, ctx.post_bundle_dir.sub,
                                   clean_name)
                  IN  process_loop_count_all(found, i + 1, ctx,
                        [updated_body |-> replace_ref(acc.updated_body, alt_text,
                                                      img_path, clean_name),
                         image_renames |-> Append(acc.image_renames,
                                                  [old_path |-> img_path,
                                                   new_name |-> clean_name,
                                                   alt_text |-> alt_text]),
                         counter |-> acc.counter + 1,
                         f |-> IF ctx.dry_run THEN acc.f
                               ELSE write(acc.f, dest, optimize_image(read(acc.f, source)))])

process_images_count_all(f, dry, draft_dir, b, slug, post_bundle_dir, is_in_published) ==
    process_loop_count_all(images_found(b), 1,
        [dry_run |-> dry, draft_dir |-> draft_dir, post_slug |-> slug,
         post_bundle_dir |-> post_bundle_dir, is_in_published |-> is_in_published],
        [updated_body |-> b, image_renames |-> <<>>, counter |-> 1, f |-> f])

\* mutant: the images are copied in dry-run mode too
process_images_always_copy(f, dry, draft_dir, b, slug, post_bundle_dir, is_in_published) ==
    process_loop(images_found(b), 1,
        [dry_run |-> FALSE, draft_dir |-> draft_dir, post_slug |-> slug,
         post_bundle_dir |-> post_bundle_dir, is_in_published |-> is_in_published],
        [updated_body |-> b, image_renames |-> <<>>, counter |-> 1, f |-> f])

\* BlogPublisher.process_images: [updated_body, image_renames, counter, f]
process_images(f, dry, draft_dir, b, slug, post_bundle_dir, is_in_published) ==
    process_loop(images_found(b), 1,
        [dry_run |-> dry, draft_dir |-> draft_dir, post_slug |-> slug,
         post_bundle_dir |-> post_bundle_dir, is_in_published |-> is_in_published],
        [updated_body |-> b, image_renames |-> <<>>, counter |-> 1, f |-> f])

\* BlogPublisher.update_image_refs
RECURSIVE update_image_refs(_, _)
update_image_refs(b, renames) ==
    IF renames = <<>> THEN b
    ELSE update_image_refs(
             replace_ref(b, renames[1].alt_text, renames[1].old_path, renames[1].new_name),
             Tail(renames))

-----------------------------------------------------------------------------
(* YAML.  A serialized front matter is a sequence of lines [key, style, v]  *)
(* in sorted key order; a scalar is "plain" or "quoted", a list is "seq".   *)
(* The loader resolves a plain scalar by its looks: a timestamp, an         *)
(* integer, a boolean, else a string.                                       *)

KEY_ORDER == <<"categories", "date", "draft", "extra", "tags", "title", "type">>

AllDigits(s) == s # <<>> /\ \A i \in 1..Len(s) : s[i] \in DigitChars

\* the implicit timestamp resolver: YYYY-MM-DD followed by anything
LooksTimestamp(s) ==
    /\ Len(s) >= 10
    /\ AllDigits(SubSeq(s, 1, 4)) /\ s[5] = "-"
    /\ AllDigits(SubSeq(s, 6, 7)) /\ s[8] = "-"
    /\ AllDigits(SubSeq(s, 9, 10))

LooksBool(s) == s \in {<<"true">>, <<"false">>}

\* the representer: one line for a value
represent(key, val) ==
    CASE val.k = "str" ->
             [key |-> key,
              style |-> IF LooksTimestamp(val.v) \/ AllDigits(val.v) \/ LooksBool(val.v)
                           \/ val.v = <<>>
                        THEN "quoted" ELSE "plain",
              v |-> val.v]
      [] val.k = "list" -> [key |-> key, style |-> "seq", v |-> val.v]
      [] OTHER -> [key |-> key, style |-> "plain", v |-> val.v]

\* mutant: strings are never quoted
represent_unquoted(key, val) ==
    [key |-> key, style |-> IF val.k = "list" THEN "seq" ELSE "plain", v |-> val.v]

\* FrontmatterParser.serialize: yaml.dump sorts the keys
serialize(frontmatter) ==
    LET keys == SelectSeq(KEY_ORDER, LAMBDA key : frontmatter.d[key] # Absent)
    IN  [i \in 1..Len(keys) |-> represent(keys[i], frontmatter.d[keys[i]])]

\* the constructor: the value of one line
construct(line) ==
    CASE line.style = "seq" -> List(line.v)
      [] line.style = "quoted" -> Str(line.v)
      [] LooksTimestamp(line.v) -> Ts(line.v)
      [] AllDigits(line.v) -> [k |-> "int", v |-> line.v]
      [] LooksBool(line.v) -> [k |-> "bool", v |-> line.v]
      [] OTHER -> Str(line.v)

\* yaml.safe_load of a block: None for an empty block
safe_load(lines) ==
    IF lines = <<>> THEN NoFrontmatter
    ELSE Dict([f \in FIELDS |->
                 IF \E i \in 1..Len(lines) : lines[i].key = f
                 THEN construct(lines[CHOOSE i \in 1..Len(lines) : lines[i].key = f])
                 ELSE Absent])

\* a markdown file: an optional front-matter block and the text after it
Doc(has_block, bad, yaml, text) ==
    [kind |-> "md", has_block |-> has_block, bad |-> bad, yaml |-> yaml, text |-> text]

\* FrontmatterParser.create_markdown
create_markdown(frontmatter, b) == Doc(TRUE, FALSE, serialize(frontmatter), b)

\* \n* : the tokens after the leading empty lines
RECURSIVE skip_blank(_)
skip_blank(text) ==
    IF text # <<>> /\ text[1].t = "blank" THEN skip_blank(Tail(text)) ELSE text

\* \s* before a line that is not blank: the tokens after the leading empty
\* lines and lines of spaces
RECURSIVE skip_space(_)
skip_space(text) ==
    IF text # <<>> /\ text[1].t \in {"blank", "spaces"}
    THEN skip_space(Tail(text))
    ELSE text

\* FrontmatterParser.extract_h1_title: ^\s*#\s+(.+?)(?:\n|$) at the start
extract_h1_title(text) ==
    LET rest == skip_space(text)
    IN  IF rest # <<>> /\ rest[1].t = "h1" THEN Str(rest[1].alt) ELSE Absent

\* mutant: the pattern without its trailing \n*
remove_h1_keep_newlines(text) ==
    LET rest == skip_space(text)
    IN  IF rest # <<>> /\ rest[1].t = "h1" THEN Tail(rest) ELSE text

\* FrontmatterParser.remove_h1: H1_PATTERN ^\s*#\s+[^\n]+\n* removed once
remove_h1(text) ==
    LET rest == skip_space(text)
    IN  IF rest # <<>> /\ rest[1].t = "h1" THEN skip_blank(Tail(rest)) ELSE text

\* FrontmatterParser.parse: [front_matter, body, extracted_title]; only for a
\* document whose block is well-formed YAML.  FRONTMATTER_PATTERN ends the
\* block with ---\s*\n: the \s* takes the blank lines that follow the block,
\* so match.group(2) starts at the first line that is not blank
parse(doc) ==
    LET text == IF doc.has_block THEN skip_space(doc.text) ELSE doc.text
    IN  [front_matter |-> IF doc.has_block THEN safe_load(doc.yaml) ELSE NoFrontmatter,
         body |-> remove_h1(text),
         extracted_title |-> extract_h1_title(text)]

-----------------------------------------------------------------------------
(* Interactive collection.  An answer is what the user types at one prompt: *)
(* <<>> is the Enter key alone.                                             *)

\* Python truthiness of a value
Truthy(val) == val.k # "absent" /\ val.v # <<>> /\ val.v # <<"false">>

\* `if existing`: a non-empty dict
IsExisting(existing) == ~Falsy(existing)

\* UserInput.text_field: the typed text, or the default on Enter
text_field(default, typed) == IF typed = <<>> THEN default ELSE Str(typed)

\* BlogPublisher.parse_date: the three accepted formats, by their length
parse_date(date_str) ==
    CASE Len(date_str) = 20 -> date_str
      [] Len(date_str) = 10 ->
             date_str \o <<"T", "0", "0", ":", "0", "0", ":", "0", "0", "Z">>
      [] Len(date_str) = 16 ->
             SubSeq(date_str, 1, 10) \o <<"T">> \o SubSeq(date_str, 12, 16)
                 \o <<":", "0", "0", "Z">>
      [] OTHER -> <<>>

\* BlogPublisher.collect_date
collect_date(existing, typed, now) ==
    LET default_date == IF IsExisting(existing) /\ existing.d["date"] # Absent
                        THEN existing.d["date"] ELSE Str(now)
    IN  IF typed = <<>> THEN default_date ELSE Str(parse_date(typed))

\* ', '.join(default_list).split(','), stripped, empty items dropped
join_split(default_list) ==
    SelectSeq(default_list.v, LAMBDA item : ~IsSpace(item) /\ item # ",")

\* UserInput.list_field: typed is [items] for a typed line (the items it
\* splits into, none for a line of commas), <<>> for Enter
list_field(default_list, typed) ==
    IF typed = <<>>
    THEN List(Map(join_split(default_list), lower))
    ELSE List(Map(typed[1], lower))

\* collect_frontmatter: existing.get('title', '') if existing else
\* (extracted_title or '')
default_title(existing, extracted) ==
    IF IsExisting(existing)
    THEN (IF existing.d["title"] # Absent THEN existing.d["title"] ELSE Str(<<>>))
    ELSE (IF Truthy(extracted) THEN extracted ELSE Str(<<>>))

\* mutant: the existing keys that are not prompted for are carried over
collect_frontmatter_keep_all(existing, extracted, answers, now) ==
    LET has == IsExisting(existing)
    IN  Dict([f \in FIELDS |->
          CASE f = "title" -> text_field(default_title(existing, extracted), answers.title)
            [] f = "date" -> collect_date(existing, answers.date, now)
            [] f = "categories" ->
                   list_field(IF has THEN existing.d["categories"] ELSE Absent,
                              answers.categories)
            [] f = "tags" ->
                   list_field(IF has THEN existing.d["tags"] ELSE Absent, answers.tags)
            [] OTHER -> existing.d[f]])

\* BlogPublisher.collect_frontmatter: a new dict of six keys
collect_frontmatter(existing, extracted, answers, now) ==
    LET has == IsExisting(existing)
    IN  Dict([f \in FIELDS |->
          CASE f = "title" -> text_field(default_title(existing, extracted), answers.title)
            [] f = "date" -> collect_date(existing, answers.date, now)
            [] f = "categories" ->
                   list_field(IF has THEN existing.d["categories"] ELSE Absent,
                              answers.categories)
            [] f = "tags" ->
                   list_field(IF has THEN existing.d["tags"] ELSE Absent, answers.tags)
            [] f = "type" -> Str(<<"blog">>)
            [] f = "draft" -> IF has /\ existing.d["draft"] # Absent
                              THEN existing.d["draft"] ELSE Bool("false")
            [] OTHER -> Absent])

\* the answers the prompts accept: Enter needs a default, or the prompt is
\* shown again (text_field, list_field: `if not value and default`)
Accepts(existing, extracted, answers) ==
    LET has == IsExisting(existing)
    IN  /\ answers.title = <<>> => Truthy(default_title(existing, extracted))
        /\ answers.categories = <<>> => has /\ Truthy(existing.d["categories"])
        /\ answers.tags = <<>> => has /\ Truthy(existing.d["tags"])

\* ', '.join(default_list) raises TypeError unless the default is a list or a str
JoinRaises(existing) ==
    /\ IsExisting(existing)
    /\ \E f \in {"categories", "tags"} :
          Truthy(existing.d[f]) /\ existing.d[f].k \notin {"list", "str"}

-----------------------------------------------------------------------------
(* The publish workflow: main(), BlogPublisher.__init__, publish(),         *)
(* _needs_interactive_input, _review_and_confirm_loop, _publish_content,    *)
(* handle_source_file, GitOperations.commit_and_push.                       *)

\* datetime.now(timezone.utc).strftime(DATE_FORMAT_ISO)
NOW == <<"2", "0", "2", "6", "-", "1", "1", "-", "0", "2", "T",
         "1", "0", ":", "0", "0", ":", "0", "0", "Z">>

\* the same call when the program is run a second time, one second later
LATER == <<"2", "0", "2", "6", "-", "1", "1", "-", "0", "2", "T",
           "1", "0", ":", "0", "0", ":", "0", "1", "Z">>

\* the clock of the running invocation
now == IF call.op = "again" THEN LATER ELSE NOW

TmpPath == Path("tmp", <<>>, <<"tmp", ".md">>)

\* draft_path.parent
draft_dir == Dir(draft_path.root, draft_path.sub)

\* "published" in draft_path.parts
is_already_published == draft_path.root = "published"

\* self.content_dir / post_slug
BundleDir(slug) == Dir("content", slug)

BundleIndex(slug) == Path("content", slug, <<"index.md">>)

\* handle_source_file: published_bundle and published_index
published_bundle(slug) ==
    IF is_already_published THEN draft_dir ELSE Dir("published", slug)

published_index(slug) ==
    IF is_already_published THEN draft_path ELSE Path("published", slug, <<"index.md">>)

\* Path(img['old_path']).name
basename(img_path) ==
    IF img_path # <<>> /\ img_path[1] \in SKIP_PREFIXES \cup {"../assets/"}
    THEN Tail(img_path) ELSE img_path

\* mutant: the draft is unlinked before the archived copy is written
next_step_unlink_first(step, republish) ==
    CASE step = "mkdir_bundle" -> "process_images"
      [] step = "process_images" -> "write_bundle"
      [] step = "write_bundle" -> IF republish THEN "republish_write" ELSE "archive_mkdir"
      [] step = "archive_mkdir" -> "draft_unlink"
      [] step = "draft_unlink" -> "archive_write"
      [] step = "archive_write" -> "move_assets"
      [] step = "move_assets" -> "git"
      [] step = "republish_write" -> "republish_rename"
      [] step = "republish_rename" -> "git"
      [] OTHER -> "done"

\* the order of the statements of _publish_content, handle_source_file and
\* the end of publish(), when dry_run is off
next_step(step, republish) ==
    CASE step = "mkdir_bundle" -> "process_images"
      [] step = "process_images" -> "write_bundle"
      [] step = "write_bundle" -> IF republish THEN "republish_write" ELSE "archive_mkdir"
      [] step = "archive_mkdir" -> "archive_write"
      [] step = "archive_write" -> "draft_unlink"
      [] step = "draft_unlink" -> "move_assets"
      [] step = "move_assets" -> "git"
      [] step = "republish_write" -> "republish_rename"
      [] step = "republish_rename" -> "git"
      [] OTHER -> "done"

\* the exception reaches main(): printed, sys.exit(1)
Raise(at) ==
    /\ pc' = "error"
    /\ exit_code' = 1
    /\ failed_at' = at

\* main(): BlogPublisher(...) creates the content directory unless dry_run
Construct ==
    /\ pc = "main"
    /\ fs' = IF dry_run THEN fs ELSE mkdir(fs, Dir("content", <<>>))
    /\ pc' = "publish"
    /\ UNCHANGED <<call, dry_run, fs0, front_matter, body, extracted_title, content,
                   post_slug, image_renames, events, prompted, collected, git_ran,
                   draft_path, updated_body, failed_at, exit_code>>

\* publish(): the draft is missing, or its front-matter block is not YAML
ParseFails ==
    /\ pc = "publish"
    /\ \/ ~exists(fs, draft_path)
       \/ exists(fs, draft_path) /\ read(fs, draft_path).has_block
            /\ read(fs, draft_path).bad
    /\ Raise("parse")
    /\ UNCHANGED <<call, dry_run, fs, fs0, front_matter, body, extracted_title, content,
                   post_slug, image_renames, events, prompted, collected, git_ran,
                   draft_path, updated_body>>

\* publish(): read_text and FrontmatterParser.parse
ParseDocument ==
    /\ pc = "publish"
    /\ exists(fs, draft_path)
    /\ LET doc == read(fs, draft_path)
       IN  /\ ~(doc.has_block /\ doc.bad)
           /\ content' = doc
           /\ front_matter' = parse(doc).front_matter
           /\ body' = parse(doc).body
           /\ extracted_title' = parse(doc).extracted_title
    /\ pc' = "needs_interactive"
    /\ UNCHANGED <<call, dry_run, fs, fs0, post_slug, image_renames, events, prompted,
                   collected, git_ran, draft_path, updated_body, failed_at, exit_code>>

\* _needs_interactive_input returns True without a prompt: no front matter, or
\* validate fails; publish() raises in dry-run mode
NeedsInteractive ==
    /\ pc = "needs_interactive"
    /\ front_matter.isNone \/ ~validate(front_matter).ok
    /\ IF dry_run
       THEN Raise("ensure")
       ELSE pc' = "collect" /\ UNCHANGED <<failed_at, exit_code>>
    /\ UNCHANGED <<call, dry_run, fs, fs0, front_matter, body, extracted_title, content,
                   post_slug, image_renames, events, prompted, collected, git_ran,
                   draft_path, updated_body>>

\* _needs_interactive_input in dry-run mode, valid front matter: no prompt;
\* publish() completes the front matter
ValidatedDryRun ==
    /\ pc = "needs_interactive"
    /\ ~front_matter.isNone /\ validate(front_matter).ok
    /\ dry_run
    /\ front_matter' = ensure_complete(front_matter, now)
    /\ pc' = "review"
    /\ UNCHANGED <<call, dry_run, fs, fs0, body, extracted_title, content,
                   post_slug, image_renames, events, prompted, collected, git_ran,
                   draft_path, updated_body, failed_at, exit_code>>

\* _needs_interactive_input, valid front matter: "Keep existing frontmatter?"
KeepExisting ==
    /\ pc = "needs_interactive"
    /\ ~front_matter.isNone /\ validate(front_matter).ok
    /\ ~dry_run
    /\ prompted' = TRUE
    /\ \E response \in {"y", "n"} :
          IF response = "n"
          THEN pc' = "collect" /\ UNCHANGED front_matter
          ELSE /\ front_matter' = ensure_complete(front_matter, now)
               /\ pc' = "review"
    /\ UNCHANGED <<call, dry_run, fs, fs0, body, extracted_title, content,
                   post_slug, image_renames, events, collected, git_ran,
                   draft_path, updated_body, failed_at, exit_code>>

\* what the user may type at the four prompts
Answers ==
    [title : {<<>>, <<"A", "b">>},
     date : {<<>>, <<"2", "0", "2", "6", "-", "0", "1", "-", "1", "5">>},
     categories : {<<>>, << <<"tech">> >>, << <<>> >>},
     tags : {<<>>, << <<"go">> >>}]

\* publish(): collect_frontmatter in EnsureFrontMatter
CollectFrontmatter ==
    /\ pc = "collect"
    /\ prompted' = TRUE
    /\ IF JoinRaises(front_matter)
       THEN Raise("collect") /\ UNCHANGED <<front_matter, collected>>
       ELSE /\ \E answers \in Answers :
                 /\ Accepts(front_matter, extracted_title, answers)
                 /\ front_matter' = collect_frontmatter(front_matter, extracted_title,
                                                        answers, now)
            /\ collected' = front_matter'
            /\ pc' = "write_back"
            /\ UNCHANGED <<failed_at, exit_code>>
    /\ UNCHANGED <<call, dry_run, fs, fs0, body, extracted_title, content,
                   post_slug, image_renames, events, git_ran,
                   draft_path, updated_body>>

\* publish(): "Write frontmatter back to source"
WriteBack ==
    /\ pc = "write_back"
    /\ content' = create_markdown(front_matter, body)
    /\ \E ok \in BOOLEAN :
          IF ok
          THEN /\ fs' = write(fs, draft_path, content')
               /\ pc' = "review"
               /\ UNCHANGED <<failed_at, exit_code>>
          ELSE Raise("write_back") /\ UNCHANGED fs
    /\ UNCHANGED <<call, dry_run, fs0, front_matter, body, extracted_title,
                   post_slug, image_renames, events, prompted, collected, git_ran,
                   draft_path, updated_body>>

\* _review_and_confirm_loop in dry-run mode: show_frontmatter, break
ReviewDryRun ==
    /\ pc = "review"
    /\ dry_run
    /\ pc' = "finalize"
    /\ UNCHANGED <<call, dry_run, fs, fs0, front_matter, body, extracted_title, content,
                   post_slug, image_renames, events, prompted, collected, git_ran,
                   draft_path, updated_body, failed_at, exit_code>>

\* confirm_action: the keys and what they return; any other key asks again
actions(char) ==
    CASE char = "y" -> "yes"
      [] char = "q" -> "no"
      [] char = "e" -> "edit"
      [] char = "p" -> "preview"
      [] OTHER -> "again"

\* mutant: a preview publishes
dispatch_preview_breaks(response) ==
    CASE response = "yes" -> "finalize"
      [] response = "no" -> "aborted"
      [] response = "edit" -> "edit"
      [] response = "preview" -> "finalize"
      [] OTHER -> "review"

\* _review_and_confirm_loop: where a response leads
dispatch(response) ==
    CASE response = "yes" -> "finalize"
      [] response = "no" -> "aborted"
      [] response = "edit" -> "edit"
      [] response = "preview" -> "preview"
      [] OTHER -> "review"

\* _review_and_confirm_loop: show_frontmatter, confirm_action, one key
ConfirmAction ==
    /\ pc = "review"
    /\ ~dry_run
    /\ prompted' = TRUE
    /\ \E char \in {"y", "q", "e", "p", "x"} :
          /\ pc' = dispatch(actions(char))
          /\ events' = IF actions(char) = "yes" THEN Append(events, "accept") ELSE events
          /\ exit_code' = IF actions(char) = "no" THEN 0 ELSE exit_code
    /\ UNCHANGED <<call, dry_run, fs, fs0, front_matter, body, extracted_title, content,
                   post_slug, image_renames, collected, git_ran,
                   draft_path, updated_body, failed_at>>

\* _review_and_confirm_loop, 'edit': collect_frontmatter, type = 'blog'
EditFrontmatter ==
    /\ pc = "edit"
    /\ IF JoinRaises(front_matter)
       THEN Raise("edit") /\ UNCHANGED <<front_matter, collected>>
       ELSE /\ \E answers \in Answers :
                 /\ Accepts(front_matter, extracted_title, answers)
                 /\ front_matter' =
                      Dict([collect_frontmatter(front_matter, extracted_title,
                                                answers, now).d
                               EXCEPT !["type"] = Str(<<"blog">>)])
            /\ collected' = front_matter'
            /\ pc' = "review"
            /\ UNCHANGED <<failed_at, exit_code>>
    /\ UNCHANGED <<call, dry_run, fs, fs0, body, extracted_title, content,
                   post_slug, image_renames, events, prompted, git_ran,
                   draft_path, updated_body>>

\* mutant: the preview is written under the content directory and left there
PreviewContent_in_content_dir ==
    /\ pc = "preview"
    /\ fs' = write(fs, Path("content", <<>>, <<"preview", ".md">>),
                   create_markdown(front_matter, body))
    /\ pc' = "review"
    /\ UNCHANGED <<call, dry_run, fs0, front_matter, body, extracted_title, content,
                   post_slug, image_renames, events, prompted, collected, git_ran,
                   draft_path, updated_body, failed_at, exit_code>>

\* preview_content: the temporary file is written, shown and unlinked; a
\* failing unlink is ignored and leaves the file
PreviewContent ==
    /\ pc = "preview"
    /\ \E unlinked \in BOOLEAN :
          fs' = IF unlinked THEN fs
                ELSE write(fs, TmpPath, create_markdown(front_matter, body))
    /\ pc' = "review"
    /\ UNCHANGED <<call, dry_run, fs0, front_matter, body, extracted_title, content,
                   post_slug, image_renames, events, prompted, collected, git_ran,
                   draft_path, updated_body, failed_at, exit_code>>

\* publish(): generate_slug(front_matter['title'], front_matter['date']);
\* date_str[:10] and title.lower() raise on a value that is not a str
GenerateSlug ==
    /\ pc = "finalize"
    /\ IF front_matter.d["date"].k # "str" \/ front_matter.d["title"].k # "str"
       THEN Raise("generate_slug") /\ UNCHANGED post_slug
       ELSE /\ post_slug' = generate_slug(front_matter.d["title"].v,
                                          front_matter.d["date"].v)
            /\ pc' = "mkdir_bundle"
            /\ UNCHANGED <<failed_at, exit_code>>
    /\ UNCHANGED <<call, dry_run, fs, fs0, front_matter, body, extracted_title, content,
                   image_renames, events, prompted, collected, git_ran,
                   draft_path, updated_body>>

\* _publish_content: post_bundle_dir.mkdir unless dry_run
MkdirBundle ==
    /\ pc = "mkdir_bundle"
    /\ \E ok \in BOOLEAN :
          IF dry_run \/ ok
          THEN /\ fs' = IF dry_run THEN fs ELSE mkdir(fs, BundleDir(post_slug))
               /\ pc' = next_step("mkdir_bundle", is_already_published)
               /\ UNCHANGED <<failed_at, exit_code>>
          ELSE Raise("mkdir_bundle") /\ UNCHANGED fs
    /\ UNCHANGED <<call, dry_run, fs0, front_matter, body, extracted_title, content,
                   post_slug, image_renames, events, prompted, collected, git_ran,
                   draft_path, updated_body>>

\* _publish_content: process_images
\* k = 0: every copy succeeds.  k > 0: the k-th reference is processed and
\* shutil.copy2 raises in optimize_image (in its else branch and again in the
\* except branch, or in the except branch after PIL failed): nothing catches
\* it before main()
ProcessImages ==
    /\ pc = "process_images"
    /\ LET found == images_found(body)
           ctx == [dry_run |-> dry_run, draft_dir |-> draft_dir, post_slug |-> post_slug,
                   post_bundle_dir |-> BundleDir(post_slug),
                   is_in_published |-> is_already_published]
           acc0 == [updated_body |-> body, image_renames |-> <<>>, counter |-> 1,
                    f |-> fs]
       IN  \E k \in 0..Len(found) :
              IF k = 0
              THEN LET r == process_images(fs, dry_run, draft_dir, body, post_slug,
                                           BundleDir(post_slug), is_already_published)
                   IN  /\ fs' = r.f
                       /\ updated_body' = r.updated_body
                       /\ image_renames' = r.image_renames
                       /\ pc' = next_step("process_images", is_already_published)
                       /\ UNCHANGED <<failed_at, exit_code>>
              ELSE LET before == process_loop(SubSeq(found, 1, k - 1), 1, ctx, acc0)
                   IN  /\ ~dry_run
                       /\ found[k].path[1] \notin SKIP_PREFIXES
                       /\ find_image(before.f, draft_dir, found[k].path,
                                     is_already_published) # NoSource
                       /\ fs' = before.f
                       /\ Raise("process_images")
                       /\ UNCHANGED <<updated_body, image_renames>>
    /\ UNCHANGED <<call, dry_run, fs0, front_matter, body, extracted_title, content,
                   post_slug, events, prompted, collected, git_ran, draft_path>>

\* _publish_content: write index.md unless dry_run, then handle_source_file
WriteBundle ==
    /\ pc = "write_bundle"
    /\ \E ok \in BOOLEAN :
          IF dry_run
          THEN /\ pc' = "git"
               /\ UNCHANGED <<fs, events, failed_at, exit_code>>
          ELSE IF ok
          THEN /\ fs' = write(fs, BundleIndex(post_slug),
                              create_markdown(front_matter, updated_body))
               /\ events' = Append(events, "bundle_written")
               /\ pc' = next_step("write_bundle", is_already_published)
               /\ UNCHANGED <<failed_at, exit_code>>
          ELSE Raise("write_bundle") /\ UNCHANGED <<fs, events>>
    /\ UNCHANGED <<call, dry_run, fs0, front_matter, body, extracted_title, content,
                   post_slug, image_renames, prompted, collected, git_ran,
                   draft_path, updated_body>>

\* handle_source_file: the loops that move the source images to their new names
RECURSIVE move_images(_, _, _, _)
move_images(f, renames, from_dir, to_dir) ==
    IF renames = <<>> THEN f
    ELSE LET old_img == Path(from_dir.root, from_dir.sub, basename(renames[1].old_path))
             new_img == Path(to_dir.root, to_dir.sub, renames[1].new_name)
         IN  move_images(IF exists(f, old_img) /\ old_img # new_img
                         THEN replace(f, old_img, new_img) ELSE f,
                         Tail(renames), from_dir, to_dir)

\* assets_dir.rmdir() when the directory exists and is empty
rmdir_if_empty(f, d) ==
    IF d \in f.dirs /\ iterdir(f, d) = {} THEN [f EXCEPT !.dirs = f.dirs \ {d}] ELSE f

\* handle_source_file, first time: published_bundle.mkdir
ArchiveMkdir ==
    /\ pc = "archive_mkdir"
    /\ \E ok \in BOOLEAN :
          IF ok
          THEN /\ fs' = mkdir(fs, published_bundle(post_slug))
               /\ pc' = next_step("archive_mkdir", is_already_published)
               /\ UNCHANGED <<failed_at, exit_code>>
          ELSE Raise("archive_mkdir") /\ UNCHANGED fs
    /\ UNCHANGED <<call, dry_run, fs0, front_matter, body, extracted_title, content,
                   post_slug, image_renames, events, prompted, collected, git_ran,
                   draft_path, updated_body>>

\* mutant: the archived copy is the source as it was read
source_markdown_as_read == content

\* the markdown handle_source_file writes: update_image_refs(content, image_renames)
source_markdown == [content EXCEPT !.text = update_image_refs(@, image_renames)]

\* handle_source_file, first time: published_index.write_text
ArchiveWrite ==
    /\ pc = "archive_write"
    /\ \E ok \in BOOLEAN :
          IF ok
          THEN /\ fs' = write(fs, published_index(post_slug), source_markdown)
               /\ events' = Append(events, "archive_written")
               /\ pc' = next_step("archive_write", is_already_published)
               /\ UNCHANGED <<failed_at, exit_code>>
          ELSE Raise("archive_write") /\ UNCHANGED <<fs, events>>
    /\ UNCHANGED <<call, dry_run, fs0, front_matter, body, extracted_title, content,
                   post_slug, image_renames, prompted, collected, git_ran,
                   draft_path, updated_body>>

\* mutant: unlink(missing_ok=True)
DraftUnlink_missing_ok ==
    /\ pc = "draft_unlink"
    /\ fs' = unlink(fs, draft_path)
    /\ events' = Append(events, "draft_deleted")
    /\ pc' = next_step("draft_unlink", is_already_published)
    /\ UNCHANGED <<call, dry_run, fs0, front_matter, body, extracted_title, content,
                   post_slug, image_renames, prompted, collected, git_ran,
                   draft_path, updated_body, failed_at, exit_code>>

\* handle_source_file, first time: draft_path.unlink()
DraftUnlink ==
    /\ pc = "draft_unlink"
    /\ \E ok \in BOOLEAN :
          IF ok /\ exists(fs, draft_path)
          THEN /\ fs' = unlink(fs, draft_path)
               /\ events' = Append(events, "draft_deleted")
               /\ pc' = next_step("draft_unlink", is_already_published)
               /\ UNCHANGED <<failed_at, exit_code>>
          ELSE Raise("draft_unlink") /\ UNCHANGED <<fs, events>>
    /\ UNCHANGED <<call, dry_run, fs0, front_matter, body, extracted_title, content,
                   post_slug, image_renames, prompted, collected, git_ran,
                   draft_path, updated_body>>

\* handle_source_file, first time: "Move images from assets/ to bundle folder"
MoveAssets ==
    /\ pc = "move_assets"
    /\ fs' = IF image_renames = <<>> THEN fs
             ELSE rmdir_if_empty(move_images(fs, image_renames, Dir("assets", <<>>),
                                             published_bundle(post_slug)),
                                 Dir("assets", <<>>))
    /\ pc' = next_step("move_assets", is_already_published)
    /\ UNCHANGED <<call, dry_run, fs0, front_matter, body, extracted_title, content,
                   post_slug, image_renames, events, prompted, collected, git_ran,
                   draft_path, updated_body, failed_at, exit_code>>

\* handle_source_file, re-publishing: published_index.write_text
RepublishWrite ==
    /\ pc = "republish_write"
    /\ \E ok \in BOOLEAN :
          IF ok
          THEN /\ fs' = write(fs, published_index(post_slug), source_markdown)
               /\ events' = Append(events, "archive_written")
               /\ pc' = next_step("republish_write", is_already_published)
               /\ UNCHANGED <<failed_at, exit_code>>
          ELSE Raise("republish_write") /\ UNCHANGED <<fs, events>>
    /\ UNCHANGED <<call, dry_run, fs0, front_matter, body, extracted_title, content,
                   post_slug, image_renames, prompted, collected, git_ran,
                   draft_path, updated_body>>

\* handle_source_file, re-publishing: the images are renamed inside the bundle
RepublishRename ==
    /\ pc = "republish_rename"
    /\ fs' = move_images(fs, image_renames, draft_dir, published_bundle(post_slug))
    /\ pc' = next_step("republish_rename", is_already_published)
    /\ UNCHANGED <<call, dry_run, fs0, front_matter, body, extracted_title, content,
                   post_slug, image_renames, events, prompted, collected, git_ran,
                   draft_path, updated_body, failed_at, exit_code>>

\* what the git step can meet: pushed, nothing to commit, a git command
\* exits non-zero (CalledProcessError, caught), no git executable
\* (FileNotFoundError, not caught by commit_and_push)
GitOutcomes == {"pushed", "no_changes", "failed", "unavailable"}

\* publish(): commit_and_push unless dry_run; main(): sys.exit(0)
GitStep ==
    /\ pc = "git"
    /\ \E outcome \in GitOutcomes :
          IF dry_run
          THEN /\ pc' = "done" /\ exit_code' = 0
               /\ UNCHANGED <<git_ran, events, failed_at>>
          ELSE /\ git_ran' = TRUE
               /\ events' = Append(events, "git")
               /\ IF outcome = "unavailable"
                  THEN Raise("git")
                  ELSE pc' = "done" /\ exit_code' = 0 /\ UNCHANGED failed_at
    /\ UNCHANGED <<call, dry_run, fs, fs0, front_matter, body, extracted_title, content,
                   post_slug, image_renames, prompted, collected,
                   draft_path, updated_body>>

\* main() once more: after a re-publish in which the user kept the front
\* matter and accepted, the program is started again on the same archived
\* source, in the filesystem the first run left; call.out keeps the bundle
\* of the first run
PublishAgain ==
    /\ pc = "done"
    /\ call.op = "none"
    /\ ~dry_run
    /\ is_already_published
    /\ collected.isNone
    /\ ~exists(fs, TmpPath)
    /\ call' = [op |-> "again", in |-> <<>>,
                out |-> [slug |-> post_slug,
                         bundle |-> iterdir(fs, BundleDir(post_slug))],
                done |-> TRUE]
    /\ pc' = "main"
    /\ fs0' = fs
    /\ front_matter' = NoFrontmatter
    /\ body' = <<>>
    /\ extracted_title' = Absent
    /\ content' = Doc(FALSE, FALSE, <<>>, <<>>)
    /\ post_slug' = <<>>
    /\ image_renames' = <<>>
    /\ updated_body' = <<>>
    /\ events' = <<>>
    /\ prompted' = FALSE
    /\ git_ran' = FALSE
    /\ failed_at' = ""
    /\ exit_code' = -1
    /\ UNCHANGED <<dry_run, fs, collected, draft_path>>

-----------------------------------------------------------------------------
(* The initial states: the filesystem the program is started in.            *)

T1 == <<"M", "y", " ", "P", "o", "s", "t", "!">>

D1 == <<"2", "0", "2", "6", "-", "0", "1", "-", "1", "5", "T",
        "0", "0", ":", "0", "0", ":", "0", "0", "Z">>

OldSlug == <<"o", "l", "d">>

\* a front matter dict from its values; x is <<type, extra>>
Frontmatter(t, d, c, g, x) ==
    Dict([f \in FIELDS |->
            CASE f = "title" -> t
              [] f = "date" -> d
              [] f = "categories" -> c
              [] f = "tags" -> g
              [] f = "type" -> x[1]
              [] f = "extra" -> x[2]
              [] OTHER -> Absent])

NoExtras == <<Absent, Absent>>

Extras == <<Str(<<"page">>), Str(<<"x">>)>>

\* the front matter a draft may carry: every title, date and categories
\* beside good tags, and the good title, date and categories beside every
\* tags, type and extra key
InitFrontmatters ==
    {Frontmatter(t, d, c, List(<<"go">>), NoExtras) :
        t \in {Absent, Str(T1), IntVal},
        d \in {Absent, Str(D1), Ts(D1)},
        c \in {Absent, List(<<"tech">>), List(<<>>), Str(<<"g", "o">>), IntVal}}
    \cup
    {Frontmatter(Str(T1), Str(D1), List(<<"tech">>), g, x) :
        g \in {Absent, List(<<"go">>)},
        x \in {NoExtras, Extras}}

\* the body of a draft that is not yet archived: its image lives in ../assets
DraftBody ==
    <<H1(T1), Blank, Text(<<"hello">>),
      Img(<<"a">>, <<"../assets/", "a", ".png">>, FALSE),
      Img(<<"x">>, <<"http://", "x", ".png">>, FALSE),
      Img(<<"a">>, <<"../assets/", "a", ".png">>, TRUE)>>

\* the body of an archived source: its image lives beside it
ArchivedBody ==
    <<Text(<<"hello">>), Img(<<"a">>, <<"a", ".png">>, FALSE)>>

InitBody(root) == IF root = "published" THEN ArchivedBody ELSE DraftBody

\* the documents a draft file may hold
InitDocs(root) ==
    {create_markdown(fm, InitBody(root)) : fm \in InitFrontmatters}
        \cup {Doc(FALSE, FALSE, <<>>, InitBody(root)),
              Doc(FALSE, FALSE, <<>>, <<Text(<<"hello">>)>>),
              Doc(TRUE, TRUE, <<>>, InitBody(root))}

InitDraftPaths ==
    {Path("drafts", <<>>, <<"post", ".md">>), Path("published", OldSlug, <<"index.md">>)}

\* the filesystem at program start
InitFs(dp, doc, has_content, has_draft) ==
    [dirs |-> {Dir("drafts", <<>>)}
                \cup (IF has_content THEN {Dir("content", <<>>)} ELSE {})
                \cup (IF dp.root = "published"
                      THEN {Dir("published", <<>>), Dir("published", OldSlug)}
                      ELSE {Dir("assets", <<>>)}),
     files |-> (IF has_draft THEN {[p |-> dp, data |-> doc]} ELSE {})
                \cup (IF dp.root = "published"
                      THEN {[p |-> Path("published", OldSlug, <<"a", ".png">>),
                             data |-> Image("a", 3, 3, TRUE)]}
                      ELSE {[p |-> Path("assets", <<>>, <<"a", ".png">>),
                             data |-> Image("a", 3, 3, TRUE)]})]

CallIdle == [op |-> "none", in |-> <<>>, out |-> <<>>, done |-> TRUE]

Init ==
    /\ call = CallIdle
    /\ pc = "main"
    /\ dry_run \in BOOLEAN
    /\ draft_path \in InitDraftPaths
    /\ \E doc \in InitDocs(draft_path.root), has_content \in BOOLEAN,
          has_draft \in BOOLEAN :
          /\ has_draft \/ doc = Doc(FALSE, FALSE, <<>>, <<Text(<<"hello">>)>>)
          /\ fs = InitFs(draft_path, doc, has_content, has_draft)
    /\ fs0 = fs
    /\ front_matter = NoFrontmatter
    /\ body = <<>>
    /\ extracted_title = Absent
    /\ content = Doc(FALSE, FALSE, <<>>, <<>>)
    /\ post_slug = <<>>
    /\ image_renames = <<>>
    /\ updated_body = <<>>
    /\ events = <<>>
    /\ prompted = FALSE
    /\ collected = NoFrontmatter
    /\ git_ran = FALSE
    /\ failed_at = ""
    /\ exit_code = -1

Next ==
    \/ Construct
    \/ ParseFails
    \/ ParseDocument
    \/ NeedsInteractive
    \/ ValidatedDryRun
    \/ KeepExisting
    \/ CollectFrontmatter
    \/ WriteBack
    \/ ReviewDryRun
    \/ ConfirmAction
    \/ EditFrontmatter
    \/ PreviewContent
    \/ GenerateSlug
    \/ MkdirBundle
    \/ ProcessImages
    \/ WriteBundle
    \/ ArchiveMkdir
    \/ ArchiveWrite
    \/ DraftUnlink
    \/ MoveAssets
    \/ RepublishWrite
    \/ RepublishRename
    \/ GitStep
    \/ PublishAgain

Spec == Init /\ [][Next]_vars

-----------------------------------------------------------------------------
(* Two invocations of the program on one draft.  Each is a process of its   *)
(* own: it has its own locals and shares only the filesystem.  The          *)
(* variables of the workflow hold the locals of the invocation that takes   *)
(* the next step (call.in names it), call.out holds the locals of the       *)
(* other one.  One step of the workflow is one system call on the shared    *)
(* filesystem, so the scheduler may switch between any two steps.           *)

\* the locals of the invocation that is running
Locals ==
    [pc |-> pc, front_matter |-> front_matter, body |-> body,
     extracted_title |-> extracted_title, content |-> content,
     post_slug |-> post_slug, image_renames |-> image_renames,
     updated_body |-> updated_body, events |-> events, prompted |-> prompted,
     collected |-> collected, git_ran |-> git_ran, failed_at |-> failed_at,
     exit_code |-> exit_code]

\* the process has exited
Ended(l) == l.pc \in {"done", "error", "aborted"}

\* the operating system runs the other invocation
Switch ==
    /\ call.op = "two"
    /\ ~Ended(call.out)
    /\ call' = [call EXCEPT !.in = 3 - call.in, !.out = Locals]
    /\ pc' = call.out.pc
    /\ front_matter' = call.out.front_matter
    /\ body' = call.out.body
    /\ extracted_title' = call.out.extracted_title
    /\ content' = call.out.content
    /\ post_slug' = call.out.post_slug
    /\ image_renames' = call.out.image_renames
    /\ updated_body' = call.out.updated_body
    /\ events' = call.out.events
    /\ prompted' = call.out.prompted
    /\ collected' = call.out.collected
    /\ git_ran' = call.out.git_ran
    /\ failed_at' = call.out.failed_at
    /\ exit_code' = call.out.exit_code
    /\ UNCHANGED <<dry_run, fs, fs0, draft_path>>

\* both invocations have just been started on one draft, which has valid
\* front matter or no front-matter block
InitTwo ==
    /\ pc = "main"
    /\ dry_run = FALSE
    /\ draft_path = Path("drafts", <<>>, <<"post", ".md">>)
    /\ \E doc \in {create_markdown(Frontmatter(Str(T1), Str(D1), List(<<"tech">>),
                                                List(<<"go">>), NoExtras), DraftBody),
                    Doc(FALSE, FALSE, <<>>, DraftBody)} :
          fs = InitFs(draft_path, doc, TRUE, TRUE)
    /\ fs0 = fs
    /\ front_matter = NoFrontmatter
    /\ body = <<>>
    /\ extracted_title = Absent
    /\ content = Doc(FALSE, FALSE, <<>>, <<>>)
    /\ post_slug = <<>>
    /\ image_renames = <<>>
    /\ updated_body = <<>>
    /\ events = <<>>
    /\ prompted = FALSE
    /\ collected = NoFrontmatter
    /\ git_ran = FALSE
    /\ failed_at = ""
    /\ exit_code = -1
    /\ call = [op |-> "two", in |-> 1, out |-> Locals, done |-> TRUE]

\* what the two users type at the four prompts: Enter at the title and the
\* date, or a title of their own
TwoAnswers ==
    [title : {<<>>, <<"A", "b">>},
     date : {<<>>},
     categories : {<< <<"tech">> >>},
     tags : {<< <<"go">> >>}]

\* collect_frontmatter with the answers of TwoAnswers
TwoCollect ==
    /\ CollectFrontmatter
    /\ pc' = "write_back" =>
          front_matter' \in {collect_frontmatter(front_matter, extracted_title, a, now) :
                                a \in TwoAnswers}

\* an edit in the review loop with the answers of TwoAnswers
TwoEdit ==
    /\ EditFrontmatter
    /\ pc' = "review" =>
          front_matter' \in
              {Dict([collect_frontmatter(front_matter, extracted_title, a, now).d
                        EXCEPT !["type"] = Str(<<"blog">>)]) : a \in TwoAnswers}

NextTwo ==
    \/ Switch
    \/ Construct
    \/ ParseFails
    \/ ParseDocument
    \/ NeedsInteractive
    \/ KeepExisting
    \/ TwoCollect
    \/ WriteBack
    \/ ConfirmAction
    \/ TwoEdit
    \/ PreviewContent
    \/ GenerateSlug
    \/ MkdirBundle
    \/ ProcessImages
    \/ WriteBundle
    \/ ArchiveMkdir
    \/ ArchiveWrite
    \/ DraftUnlink
    \/ MoveAssets
    \/ GitStep

SpecTwo == InitTwo /\ [][NextTwo]_vars

-----------------------------------------------------------------------------
(* Publishing an archived source again.  The archive bundle is named by the *)
(* slug of the source's title and date and holds, beside index.md, an image *)
(* the author has added and two images an earlier run has numbered.         *)

Slug1 == generate_slug(T1, D1)

\* the name an earlier run gave the k-th image of the post
Clean(k) == Slug1 \o <<"-">> \o format_02d(k) \o <<".png">>

MaxArchivedRefs == 2

\* the references an archived source may hold
ArchivedRefs ==
    {Img(<<"a">>, <<"a", ".png">>, FALSE),
     Img(<<"a">>, Clean(1), FALSE),
     Img(<<"b">>, Clean(2), FALSE)}

\* the filesystem an earlier publish and the author's additions have left
InitRepublish ==
    /\ call = [op |-> "republish", in |-> <<>>, out |-> <<>>, done |-> TRUE]
    /\ pc = "main"
    /\ dry_run = FALSE
    /\ draft_path = Path("published", Slug1, <<"index.md">>)
    /\ \E refs \in SeqUpTo(ArchivedRefs, MaxArchivedRefs) :
          fs = [dirs |-> {Dir("drafts", <<>>), Dir("content", <<>>),
                          Dir("published", <<>>), Dir("published", Slug1)},
                files |-> {[p |-> draft_path,
                            data |-> create_markdown(
                                Frontmatter(Str(T1), Str(D1), List(<<"tech">>),
                                            List(<<"go">>), NoExtras),
                                <<Text(<<"hello">>)>> \o refs)],
                           [p |-> Path("published", Slug1, <<"a", ".png">>),
                            data |-> Image("a", 1, 1, TRUE)],
                           [p |-> Path("published", Slug1, Clean(1)),
                            data |-> Image("c", 1, 1, TRUE)],
                           [p |-> Path("published", Slug1, Clean(2)),
                            data |-> Image("d", 1, 1, TRUE)]}]
    /\ fs0 = fs
    /\ front_matter = NoFrontmatter
    /\ body = <<>>
    /\ extracted_title = Absent
    /\ content = Doc(FALSE, FALSE, <<>>, <<>>)
    /\ post_slug = <<>>
    /\ image_renames = <<>>
    /\ updated_body = <<>>
    /\ events = <<>>
    /\ prompted = FALSE
    /\ collected = NoFrontmatter
    /\ git_ran = FALSE
    /\ failed_at = ""
    /\ exit_code = -1

NextRepublish ==
    \/ Construct
    \/ ParseDocument
    \/ KeepExisting
    \/ TwoCollect
    \/ WriteBack
    \/ ConfirmAction
    \/ TwoEdit
    \/ PreviewContent
    \/ GenerateSlug
    \/ MkdirBundle
    \/ ProcessImages
    \/ WriteBundle
    \/ RepublishWrite
    \/ RepublishRename
    \/ GitStep

SpecRepublish == InitRepublish /\ [][NextRepublish]_vars

-----------------------------------------------------------------------------
(* Specifications of the pure functions: Init draws an input, one action    *)
(* applies the function.  The workflow stands still.                        *)

OrchIdle ==
    /\ pc = "idle"
    /\ dry_run = FALSE
    /\ draft_path = Path("drafts", <<>>, <<"post", ".md">>)
    /\ fs = [dirs |-> {}, files |-> {}]
    /\ fs0 = fs
    /\ front_matter = NoFrontmatter
    /\ body = <<>>
    /\ extracted_title = Absent
    /\ content = Doc(FALSE, FALSE, <<>>, <<>>)
    /\ post_slug = <<>>
    /\ image_renames = <<>>
    /\ updated_body = <<>>
    /\ events = <<>>
    /\ prompted = FALSE
    /\ collected = NoFrontmatter
    /\ git_ran = FALSE
    /\ failed_at = ""
    /\ exit_code = -1

Pending(op, in) == [op |-> op, in |-> in, out |-> <<>>, done |-> FALSE]

(* validate *)

ValidateInputs ==
    {NoFrontmatter} \cup
    {Frontmatter(t, d, c, g, NoExtras) :
        t \in {Absent, Str(<<"x">>), IntVal, List(<<"x">>)},
        d \in {Absent, Str(D1)},
        c \in {Absent, List(<<"tech">>), List(<<>>), Str(<<"g", "o">>), IntVal},
        g \in {Absent, List(<<"go">>), List(<<>>), Str(<<"g", "o">>), IntVal}}

InitValidate ==
    /\ call \in {Pending("validate", fm) : fm \in ValidateInputs}
    /\ OrchIdle

ApplyValidate ==
    /\ call.op = "validate" /\ ~call.done
    /\ call' = [call EXCEPT !.out = validate(call.in), !.done = TRUE]
    /\ UNCHANGED orchvars

SpecValidate == InitValidate /\ [][ApplyValidate]_vars

(* generate_slug *)

MaxTitleLen == 4

SlugAlphabet == {"A", "b", "1", "_", " ", "-", "!"}

MyCoolPost == <<"M", "y", " ", "C", "o", "o", "l", " ", "P", "o", "s", "t", "!">>

SlugTitles == SeqUpTo(SlugAlphabet, MaxTitleLen) \cup {MyCoolPost, T1}

InitSlug ==
    /\ call \in {Pending("slug", [title |-> t, date |-> d]) :
                    t \in SlugTitles, d \in {D1, NOW}}
    /\ OrchIdle

ApplySlug ==
    /\ call.op = "slug" /\ ~call.done
    /\ call' = [call EXCEPT !.out = generate_slug(call.in.title, call.in.date),
                            !.done = TRUE]
    /\ UNCHANGED orchvars

SpecSlug == InitSlug /\ [][ApplySlug]_vars

(* process_images *)

MaxRefs == 3

\* the source images of the process_images specification
ImagesFs ==
    [dirs |-> {Dir("drafts", <<>>), Dir("assets", <<>>), Dir("content", <<>>),
               Dir("content", OldSlug)},
     files |-> {[p |-> Path("assets", <<>>, <<"a", ".png">>),
                 data |-> Image("a", 3, 3, TRUE)],
                [p |-> Path("drafts", <<>>, <<"b", ".jpg">>),
                 data |-> Image("b", 1, 1, TRUE)],
                \* a file sits where the canonical reference would resolve to
                [p |-> Path("drafts", <<>>, <<"/images/blog/", "c", ".png">>),
                 data |-> Image("c", 1, 1, TRUE)]}]

RefTokens ==
    {Img(<<"a">>, <<"../assets/", "a", ".png">>, FALSE),
     Img(<<"b">>, <<"b", ".jpg">>, FALSE),
     Img(<<"x">>, <<"http://", "x", ".png">>, FALSE),
     Img(<<"c">>, <<"/images/blog/", "c", ".png">>, FALSE),
     Img(<<"g">>, <<"gone", ".png">>, FALSE),
     Img(<<"b">>, <<"b", ".jpg">>, TRUE),
     Text(<<"hello">>)}

\* eleven processed references: the numbers reach two digits
ElevenRefs == [i \in 1..11 |-> Img(<<"a">>, <<"../assets/", "a", ".png">>, FALSE)]

ImagesBodies == SeqUpTo(RefTokens, MaxRefs) \cup {ElevenRefs}

InitImages ==
    /\ call \in {Pending("images", [body |-> b, dry_run |-> dry]) :
                    b \in ImagesBodies, dry \in BOOLEAN}
    /\ OrchIdle

ApplyImages ==
    /\ call.op = "images" /\ ~call.done
    /\ call' = [call EXCEPT
                  !.out = process_images(ImagesFs, call.in.dry_run, Dir("drafts", <<>>),
                                         call.in.body, OldSlug, BundleDir(OldSlug), FALSE),
                  !.done = TRUE]
    /\ UNCHANGED orchvars

SpecImages == InitImages /\ [][ApplyImages]_vars

(* parse after create_markdown *)

\* front matter that satisfies the required-field invariant
RoundTripFrontmatters ==
    {Frontmatter(Str(t), d, List(c), List(<<"go">>), x) :
        t \in {T1, <<"2", "0", "2", "6">>, <<"true">>, D1},
        d \in {Absent, Str(D1), Ts(D1)},
        c \in {<<"tech">>, <<"tech", "go">>},
        x \in {NoExtras, Extras}}

RoundTripBodies ==
    {<<>>,
     <<Text(<<"hello">>)>>,
     <<Text(<<"hello">>), H1(T1), Blank, Text(<<"hello">>)>>,
     <<Blank, Text(<<"hello">>)>>,
     <<H1(T1), Text(<<"hello">>)>>,
     <<Blank, H1(T1), Blank, Text(<<"hello">>)>>}

InitRoundTrip ==
    /\ call \in {Pending("round_trip", [fm |-> fm, body |-> b]) :
                    fm \in RoundTripFrontmatters, b \in RoundTripBodies}
    /\ OrchIdle

ApplyRoundTrip ==
    /\ call.op = "round_trip" /\ ~call.done
    /\ call' = [call EXCEPT !.out = parse(create_markdown(call.in.fm, call.in.body)),
                            !.done = TRUE]
    /\ UNCHANGED orchvars

SpecRoundTrip == InitRoundTrip /\ [][ApplyRoundTrip]_vars

(* collect_frontmatter *)

\* the front matter the collection may start from: none, or one with or
\* without each of the prompted fields
CollectExisting ==
    {NoFrontmatter} \cup
    {Frontmatter(t, d, c, g, NoExtras) :
        t \in {Absent, Str(T1)},
        d \in {Absent, Str(D1)},
        c \in {Absent, List(<<"tech">>)},
        g \in {Absent, List(<<"go">>)}}

InitCollect ==
    /\ call \in {Pending("collect", [existing |-> ex, extracted_title |-> h,
                                       answers |-> a]) :
                    ex \in CollectExisting, h \in {Absent, Str(<<"A", "b">>)},
                    a \in Answers}
    /\ Accepts(call.in.existing, call.in.extracted_title, call.in.answers)
    /\ OrchIdle

ApplyCollect ==
    /\ call.op = "collect" /\ ~call.done
    /\ call' = [call EXCEPT
                  !.out = [default_title |->
                               default_title(call.in.existing, call.in.extracted_title),
                           frontmatter |->
                               collect_frontmatter(call.in.existing,
                                                   call.in.extracted_title,
                                                   call.in.answers, NOW)],
                  !.done = TRUE]
    /\ UNCHANGED orchvars

SpecCollect == InitCollect /\ [][ApplyCollect]_vars

(* optimize_image *)

MaxDim == 6

InitOptimize ==
    /\ call \in {Pending("optimize", Image("a", w, h, ok)) :
                    w \in 1..MaxDim, h \in 1..MaxDim, ok \in BOOLEAN}
    /\ OrchIdle

ApplyOptimize ==
    /\ call.op = "optimize" /\ ~call.done
    /\ call' = [call EXCEPT !.out = optimize_image(call.in), !.done = TRUE]
    /\ UNCHANGED orchvars

SpecOptimize == InitOptimize /\ [][ApplyOptimize]_vars

(* parse *)

MaxLines == 4

\* documents of up to MaxLines lines (empty, spaces, one of two headings,
\* text), without a front-matter block or with the serialized block before
\* them
InitParse ==
    /\ call \in {Pending("parse", Doc(blk, FALSE,
                                        IF blk
                                        THEN serialize(Frontmatter(Str(T1), Str(D1),
                                                 List(<<"tech">>), List(<<"go">>),
                                                 NoExtras))
                                        ELSE <<>>,
                                        text)) :
                    blk \in BOOLEAN, text \in SeqUpTo({Blank, Spaces, H1(T1), H1(<<"A", "b">>),
                                              Text(<<"hello">>)}, MaxLines)}
    /\ OrchIdle

ApplyParse ==
    /\ call.op = "parse" /\ ~call.done
    /\ call' = [call EXCEPT !.out = parse(call.in), !.done = TRUE]
    /\ UNCHANGED orchvars

SpecParse == InitParse /\ [][ApplyParse]_vars

-----------------------------------------------------------------------------
(* Claims about the pure functions *)

RequiredOrder == <<"title", "categories", "tags">>

RankOf(field) == CHOOSE i \in 1..3 : RequiredOrder[i] = field

ExpectedShape(field) == IF field = "title" THEN "str" ELSE "list"

ValidateDone == call.op = "validate" /\ call.done

\* C8: validate returns (false, ["all fields (no frontmatter)"]) for absent or
\* empty front matter; otherwise the list holds, in the order title,
\* categories, tags, "<field>" for each required field that is absent and
\* "<field> (wrong type)" for each present field of the wrong shape, and
\* nothing else; ok is true exactly when the list is empty; and
\* validate({"title": "x"}) == (false, ["categories", "tags"])
C8_ValidateCompleteness ==
    ValidateDone =>
      LET fm == call.in
          ok == call.out.ok
          missing == call.out.missing
      IN  /\ (fm.isNone \/ \A f \in FIELDS : fm.d[f] = Absent) =>
                /\ ok = FALSE
                /\ missing = << <<"all fields (no frontmatter)">> >>
          /\ ~(fm.isNone \/ \A f \in FIELDS : fm.d[f] = Absent) =>
                /\ \A f \in Range(RequiredOrder) :
                      /\ (<<f>> \in Range(missing)) <=> (fm.d[f] = Absent)
                      /\ (<<f, " (wrong type)">> \in Range(missing))
                            <=> (fm.d[f] # Absent /\ fm.d[f].k # ExpectedShape(f))
                /\ \A i \in 1..Len(missing) : missing[i][1] \in Range(RequiredOrder)
                /\ \A i, j \in 1..Len(missing) :
                      i < j => RankOf(missing[i][1]) < RankOf(missing[j][1])
                /\ ok <=> (missing = <<>>)
          /\ fm = Frontmatter(Str(<<"x">>), Absent, Absent, Absent, NoExtras) =>
                /\ ok = FALSE
                /\ missing = << <<"categories">>, <<"tags">> >>

\* C8 witness: validate has answered for {"title": "x"} and for a dict with a
\* field of the wrong shape
C8_Witness ==
    /\ ValidateDone
    /\ call.in = Frontmatter(Str(<<"x">>), Absent, Absent, Absent, NoExtras)
    /\ call.out.missing = << <<"categories">>, <<"tags">> >>

(* the slug, as the claim words it: words joined by single underscores *)

IsSeparator(c) == c = "-" \/ IsSpace(c)

\* the maximal runs of characters that are no separators, in order
RECURSIVE SplitWords(_, _, _)
SplitWords(s, cur, acc) ==
    IF s = <<>> THEN (IF cur = <<>> THEN acc ELSE Append(acc, cur))
    ELSE IF IsSeparator(s[1])
         THEN SplitWords(Tail(s), <<>>, IF cur = <<>> THEN acc ELSE Append(acc, cur))
         ELSE SplitWords(Tail(s), Append(cur, s[1]), acc)

RECURSIVE JoinWords(_)
JoinWords(ws) ==
    IF ws = <<>> THEN <<>>
    ELSE IF Len(ws) = 1 THEN ws[1]
    ELSE ws[1] \o <<"_">> \o JoinWords(Tail(ws))

\* s without the underscores at its two ends
Trimmed(s) ==
    LET keep == {i \in 1..Len(s) : s[i] # "_"}
    IN  IF keep = {} THEN <<>>
        ELSE SubSeq(s, CHOOSE i \in keep : \A j \in keep : i <= j,
                       CHOOSE i \in keep : \A j \in keep : j <= i)

\* the title with its letters in lower case and everything but word
\* characters, white space and hyphens removed
Cleaned(title) ==
    LET low == [i \in 1..Len(title) |->
                   IF title[i] \in UpperLetters THEN lower(title[i]) ELSE title[i]]
    IN  SelectSeq(low, LAMBDA c : c \in LowerLetters \cup DigitChars \cup {"_", " ", "\t", "-"})

SlugDone == call.op = "slug" /\ call.done

\* C9: for every title and ISO date the slug is <YYYYMMDD>_<slugified title>:
\* the lower-cased title with every character that is no word character,
\* white space or hyphen removed and every run of white space and hyphens
\* collapsed into one underscore, with no leading or trailing underscore;
\* slug("My Cool Post!", "2026-01-15T00:00:00Z") == "20260115_my_cool_post"
C9_SlugFormat ==
    SlugDone =>
      LET d == call.in.date
          out == call.out
          slugified == SubSeq(out, 10, Len(out))
      IN  /\ Len(out) >= 9
          /\ SubSeq(out, 1, 8) = SubSeq(d, 1, 4) \o SubSeq(d, 6, 7) \o SubSeq(d, 9, 10)
          /\ out[9] = "_"
          /\ slugified = Trimmed(JoinWords(SplitWords(Cleaned(call.in.title), <<>>, <<>>)))
          /\ \A i \in 1..Len(slugified) :
                slugified[i] \in LowerLetters \cup DigitChars \cup {"_"}
          /\ slugified # <<>> => slugified[1] # "_" /\ slugified[Len(slugified)] # "_"
          /\ (call.in.title = MyCoolPost /\ d = D1) =>
                out = <<"2", "0", "2", "6", "0", "1", "1", "5", "_", "m", "y", "_",
                        "c", "o", "o", "l", "_", "p", "o", "s", "t">>

\* C9 witness: the slug of "My Cool Post!" has been generated
C9_Witness ==
    /\ SlugDone
    /\ call.in.title = MyCoolPost
    /\ call.in.date = D1
    /\ SubSeq(call.out, 10, Len(call.out)) =
          <<"m", "y", "_", "c", "o", "o", "l", "_", "p", "o", "s", "t">>

ImagesDone == call.op = "images" /\ call.done

\* the references of the input body that have a source file under ImagesFs
\* and no skipped prefix
Processed(b) ==
    SelectSeq(b, LAMBDA tok : tok.t = "img"
                   /\ tok.path \in {<<"../assets/", "a", ".png">>, <<"b", ".jpg">>})

\* k as two digits
TwoDigits(k) == <<DigitOf[(k \div 10) + 1], DigitOf[(k % 10) + 1]>>

\* C10: the k-th reference that is actually processed is copied to
\* <slug>-<NN><ext> with NN = k, from 1, zero-padded to two digits; skipped
\* and missing references take no number; the destination names of one run
\* are pairwise distinct and gap-free
C10_ImageNumbering ==
    ImagesDone =>
      LET renames == call.out.image_renames
          processed == Processed(call.in.body)
      IN  /\ Len(renames) = Len(processed)
          /\ \A k \in 1..Len(renames) :
                /\ renames[k].old_path = processed[k].path
                /\ renames[k].new_name =
                      OldSlug \o <<"-">> \o TwoDigits(k)
                          \o <<processed[k].path[Len(processed[k].path)]>>
                /\ ~call.in.dry_run =>
                      exists(call.out.f, Path("content", OldSlug, renames[k].new_name))
          /\ \A j, k \in 1..Len(renames) :
                j # k => renames[j].new_name # renames[k].new_name
          /\ {x.p.name : x \in {y \in call.out.f.files : y.p.root = "content"}}
                = IF call.in.dry_run THEN {}
                  ELSE {renames[k].new_name : k \in 1..Len(renames)}

\* C10 witness: a missing and a skipped reference stand before two processed
\* ones, which got the numbers 01 and 02
C10_Witness ==
    /\ ImagesDone
    /\ ~call.in.dry_run
    /\ Len(call.in.body) = 3
    /\ call.in.body[1].path = <<"gone", ".png">>
    /\ call.in.body[2].path = <<"b", ".jpg">>
    /\ call.in.body[3].path = <<"../assets/", "a", ".png">>
    /\ call.out.image_renames[2].new_name = OldSlug \o <<"-", "0", "2", ".png">>

-----------------------------------------------------------------------------
(* Claims about the publish workflow *)

Running == pc # "idle"

IsPrefix(a, b) == Len(a) <= Len(b) /\ a = SubSeq(b, 1, Len(a))

PublishOrder == <<"accept", "bundle_written", "archive_written", "draft_deleted", "git">>

FirstTimePublish == Running /\ ~dry_run /\ ~is_already_published

DraftDeleted == exists(fs0, draft_path) /\ ~exists(fs, draft_path)

\* C1: in a non-dry-run first-time publish the events occur only in the order
\* accept, bundle index.md written, archived copy written, draft deleted, git
\* step; none occurs unless every earlier one completed; whenever the draft
\* has been deleted the archived copy exists; if writing the bundle or the
\* archived copy fails the draft still exists
C1_PublishOrder ==
    FirstTimePublish =>
      /\ IsPrefix(events, PublishOrder)
      /\ "bundle_written" \in Range(events) => exists(fs, BundleIndex(post_slug))
      /\ "archive_written" \in Range(events) => exists(fs, published_index(post_slug))
      /\ DraftDeleted <=> "draft_deleted" \in Range(events)
      /\ DraftDeleted => exists(fs, published_index(post_slug))
      /\ git_ran => "draft_deleted" \in Range(events)
      /\ (pc = "error" /\ failed_at \in {"mkdir_bundle", "write_bundle",
                                         "archive_mkdir", "archive_write"})
            => exists(fs, draft_path)

\* C1 witness: a first-time publish ran to the end, all five events in order
C1_Witness ==
    /\ FirstTimePublish
    /\ pc = "done"
    /\ events = PublishOrder
    /\ DraftDeleted

\* C2: in dry-run mode, from construction to exit, nothing is created,
\* written, moved, renamed or deleted (content directory, bundle, images,
\* archive, draft, assets are unchanged) and no git command runs
C2_DryRunNoWrites ==
    (Running /\ dry_run) => (fs = fs0 /\ ~git_ran)

\* C2 witness: a dry run reached its end after it went over an image that a
\* real run would have copied
C2_Witness ==
    /\ Running /\ dry_run
    /\ pc = "done"
    /\ image_renames # <<>>

\* the draft the program was started on has valid front matter
DraftValid0 ==
    /\ exists(fs0, draft_path)
    /\ ~(read(fs0, draft_path).has_block /\ read(fs0, draft_path).bad)
    /\ validate(parse(read(fs0, draft_path)).front_matter).ok

\* C3: in dry-run mode no interactive prompt is ever issued: with absent or
\* invalid front matter the run ends with a fatal error and exit code 1
\* without entering the collection step; with valid front matter it goes
\* through the review step without waiting for a key and exits 0
C3_DryRunNoPrompt ==
    (Running /\ dry_run) =>
      /\ ~prompted
      /\ pc \notin {"collect", "write_back", "edit", "preview"}
      /\ (~DraftValid0 /\ pc \notin {"main", "publish", "needs_interactive"})
            => (pc = "error" /\ exit_code = 1)
      /\ DraftValid0 => (pc # "error" /\ exit_code \in {-1, 0})

OtherFiles(f) == {x \in f.files : x.p # draft_path}

C6_CollectedWrittenBack ==
    (Running /\ ~collected.isNone /\ exists(fs, draft_path)
       /\ pc \in {"review", "edit", "preview", "finalize", "aborted"})
      => parse(read(fs, draft_path)).front_matter = collected

\* C7: whenever Finalize begins the front matter has a text title, a
\* non-empty list of categories, a non-empty list of tags and a date present
\* as timestamp text
C7_FinalizeComplete ==
    pc = "finalize" =>
      /\ front_matter.d["title"].k = "str"
      /\ front_matter.d["categories"].k = "list"
      /\ front_matter.d["categories"].v # <<>>
      /\ front_matter.d["tags"].k = "list"
      /\ front_matter.d["tags"].v # <<>>
      /\ front_matter.d["date"].k = "str"

-----------------------------------------------------------------------------
(* Claims about the image references *)

\* the reference has one of the prefixes that are never resolved
Skipped(tok) ==
    tok.path[1] \in {"http://", "https://", "//", "/images/blog/"}

\* no file is where the reference points to from the draft's directory
NotFound(tok) == ~exists(ImagesFs, resolve(Dir("drafts", <<>>), tok.path))

\* C11: a reference whose path starts with http://, https://, // or the
\* canonical published-image prefix is never resolved against the
\* filesystem (a file at the place it names changes nothing), and such a
\* reference, like one whose source file is not found, keeps its markup in
\* the rewritten body, has no file copied for it and does not stop the
\* processing (every other reference of the body is still processed),
\* whatever other references the body holds
C11_SkipRules ==
    ImagesDone =>
         LET b == call.in.body
             out == call.out
             left == {i \in 1..Len(b) : b[i].t = "img" /\ (Skipped(b[i]) \/ NotFound(b[i]))}
             taken == {i \in 1..Len(b) : b[i].t = "img" /\ i \notin left}
         IN  /\ Len(out.updated_body) = Len(b)
             /\ \A i \in left :
                   /\ out.updated_body[i] = b[i]
                   /\ \A k \in 1..Len(out.image_renames) :
                         out.image_renames[k].old_path # b[i].path
             /\ Len(out.image_renames) = Cardinality(taken)
             /\ Cardinality(out.f.files \ ImagesFs.files)
                   = IF call.in.dry_run THEN 0 ELSE Cardinality(taken)
             /\ \A x \in ImagesFs.files : x \in out.f.files

\* C11 witness: a canonical reference whose path names an existing file, a
\* reference to a missing file and a processed reference in one body
C11_Witness ==
    /\ ImagesDone
    /\ ~call.in.dry_run
    /\ Len(call.in.body) = 3
    /\ call.in.body[1].path = <<"/images/blog/", "c", ".png">>
    /\ call.in.body[2].path = <<"gone", ".png">>
    /\ call.in.body[3].path = <<"b", ".jpg">>
    /\ ~call.in.body[3].title
    /\ call.out.updated_body[1] = call.in.body[1]
    /\ call.out.updated_body[3] # call.in.body[3]

-----------------------------------------------------------------------------
(* Claims about the image step *)

OptimizeDone == call.op = "optimize" /\ call.done

\* round(a / b) as Python rounds: to the nearest integer, a tie to the even one
RoundDiv(a, b) ==
    LET q == a \div b
        r == a % b
    IN  IF 2 * r < b THEN q
        ELSE IF 2 * r > b THEN q + 1
        ELSE IF q % 2 = 0 THEN q ELSE q + 1

\* C12: for every image of width w and height h and every max_width m: if
\* w <= m the destination is a byte-for-byte copy of the source, never
\* resized; if w > m the destination has width exactly m and height exactly
\* round(h * m / w)
C12_ImageThreshold ==
    (OptimizeDone /\ call.in.ok) =>
      /\ call.in.w <= max_image_width => call.out = call.in
      /\ call.in.w > max_image_width =>
            /\ call.out.resized
            /\ call.out.w = max_image_width
            /\ call.out.h = RoundDiv(call.in.h * max_image_width, call.in.w)

\* C13: any failure while opening, resizing or re-encoding an image falls
\* back to a plain copy of the source; the image step never aborts the
\* publish, so the run goes on to the bundle write and the archive step
\* after every failure in the image step
C13_ImageStepNeverAborts ==
    pc = "error" => failed_at # "process_images"

-----------------------------------------------------------------------------
(* Claims about the parser *)

RoundTripDone == call.op = "round_trip" /\ call.done

\* C14: for any front matter fm that satisfies the required-field invariant
\* and any body, also one that begins with blank lines or with a level-one
\* heading line, parsing the document composed from fm and the body returns
\* exactly (fm, body, absent title)
C14_RoundTrip ==
    RoundTripDone =>
      /\ call.out.front_matter = call.in.fm
      /\ call.out.body = call.in.body
      /\ call.out.extracted_title = Absent

-----------------------------------------------------------------------------
(* Claims about publishing again *)

\* the second of two runs on one archived source has ended, and in both the
\* user kept the existing front matter and accepted it at once
SecondRunDone ==
    /\ call.op = "again"
    /\ pc = "done"
    /\ collected.isNone
    /\ ~exists(fs, TmpPath)

\* C15: publishing the same archived document twice in succession, with
\* unchanged inputs and the same answers, produces the same bundle both
\* times: the same bundle directory name, the same index.md text, the same
\* image names with the same contents, also when the first run renamed
\* images and rewrote references in the archived copy
C15_IdempotentRepublish ==
    SecondRunDone =>
      /\ post_slug = call.out.slug
      /\ iterdir(fs, BundleDir(post_slug)) = call.out.bundle

-----------------------------------------------------------------------------
(* Claims about the version-control step *)

\* C16: any failure of the version-control step (git unavailable, or
\* staging, commit or push failing) is reported but is not fatal and rolls
\* nothing back: the bundle and the archived copy stay as written, the draft
\* stays deleted, and the run ends with exit code 0
C16_GitFailureNonFatal ==
    (git_ran /\ pc \in {"done", "error"}) =>
      /\ exists(fs, BundleIndex(post_slug))
      /\ exists(fs, published_index(post_slug))
      /\ ~is_already_published => ~exists(fs, draft_path)
      /\ pc = "done"
      /\ exit_code = 0

-----------------------------------------------------------------------------
(* Claims about the archived copy *)

\* a first-time publish has written the bundle and the archived copy
Archived ==
    /\ FirstTimePublish
    /\ "archive_written" \in Range(events)
    /\ exists(fs, BundleIndex(post_slug))
    /\ exists(fs, published_index(post_slug))

\* the image references of a written markdown file, in document order
RefsOf(p) == images_found(read(fs, p).text)

\* C17: after a first-time publish the archived copy of the source has the
\* same image renames applied as the published bundle: every reference
\* rewritten to a new name in the bundle's body is rewritten to that name in
\* the archived copy, and every reference the bundle's body leaves unchanged
\* is unchanged in the archived copy
C17_ArchiveRenames ==
    Archived =>
      LET orig == images_found(body)
          bundle == RefsOf(BundleIndex(post_slug))
          archive == RefsOf(published_index(post_slug))
      IN  /\ Len(bundle) = Len(orig)
          /\ Len(archive) = Len(orig)
          /\ \A i \in 1..Len(orig) :
                /\ bundle[i] # orig[i] => archive[i] = bundle[i]
                /\ bundle[i] = orig[i] => archive[i] = orig[i]

\* C17 witness: the publish is done; one reference was rewritten in both
\* files and another is as it was in both
C17_Witness ==
    /\ Archived
    /\ pc = "done"
    /\ \E i, j \in 1..Len(images_found(body)) :
          /\ RefsOf(BundleIndex(post_slug))[i] # images_found(body)[i]
          /\ RefsOf(published_index(post_slug))[i].path = image_renames[1].new_name
          /\ RefsOf(published_index(post_slug))[j] = images_found(body)[j]

\* C18: a reference with a quoted title, ![alt](path "title"), whose source
\* file exists is processed like any other: in the rewritten body it is
\* ![alt](<new_name>) without the title, so every image file copied into
\* the bundle is referenced by the rewritten body under its new name
C18_TitledReference ==
    (ImagesDone /\ ~call.in.dry_run) =>
      LET b == call.in.body
          out == call.out
      IN  /\ \A i \in 1..Len(b) :
                (b[i].t = "img" /\ b[i].title /\ ~Skipped(b[i]) /\ ~NotFound(b[i])) =>
                   /\ ~out.updated_body[i].title
                   /\ \E k \in 1..Len(out.image_renames) :
                         out.updated_body[i].path = out.image_renames[k].new_name
          /\ \A x \in out.f.files \ ImagesFs.files :
                \E i \in 1..Len(out.updated_body) :
                   /\ out.updated_body[i].t = "img"
                   /\ out.updated_body[i].path = x.p.name

\* C19: when the draft is already inside the archive, the archived copy is
\* overwritten in place and no draft file is deleted; and if the publish
\* computes a slug different from the archive bundle's current name, the
\* archived copy is renamed to match the newly computed name
C19_RepublishInPlace ==
    (Running /\ ~dry_run /\ is_already_published /\ pc = "done") =>
      /\ "draft_deleted" \notin Range(events)
      /\ \E p \in {draft_path, Path("published", post_slug, <<"index.md">>)} :
            exists(fs, p) /\ read(fs, p) = source_markdown
      /\ post_slug # draft_path.sub =>
            exists(fs, Path("published", post_slug, <<"index.md">>))

-----------------------------------------------------------------------------
(* Claims about the interactive collection *)

CollectDone == call.op = "collect" /\ call.done

\* C20: the title prompt is pre-filled with the best available default: the
\* existing front matter's title if it has one, else the title extracted
\* from the leading heading, else empty; in particular front matter without
\* a title and a leading heading give the heading text; and when the
\* collection starts from a front matter (an edit), every prompted field
\* that has a value defaults to it
C20_TitleDefault ==
    CollectDone =>
      LET ex == call.in.existing
          h == call.in.extracted_title
          typed == call.in.answers
          has(f) == ~ex.isNone /\ ex.d[f] # Absent
          best == IF has("title") THEN ex.d["title"]
                  ELSE IF h # Absent THEN h ELSE Str(<<>>)
      IN  /\ call.out.default_title = best
          /\ \A f \in {"title", "date", "categories", "tags"} :
                (has(f) /\ typed[f] = <<>>) => call.out.frontmatter.d[f] = ex.d[f]

-----------------------------------------------------------------------------
(* Claims about parsing a document without a front-matter block *)

ParseDone == call.op = "parse" /\ call.done /\ ~call.in.has_block

\* the position of the first line that is neither empty nor spaces only
\* (one past the end when there is none)
FirstLine(text) ==
    CHOOSE k \in 1..(Len(text) + 1) :
        /\ \A i \in 1..(k - 1) : text[i].t \in {"blank", "spaces"}
        /\ k <= Len(text) => text[k].t \notin {"blank", "spaces"}

\* the position of the first line after line k that is not empty
AfterHeading(text, k) ==
    CHOOSE m \in (k + 1)..(Len(text) + 1) :
        /\ \A i \in (k + 1)..(m - 1) : text[i].t = "blank"
        /\ m <= Len(text) => text[m].t # "blank"

LeadingHeading(text) ==
    FirstLine(text) <= Len(text) /\ text[FirstLine(text)].t = "h1"

\* C21 as stated: without a block, the body is the document with only the
\* leading heading line taken out (the blank lines before and after it and
\* all later text stay) and extracted_title is the heading's text; without
\* a leading heading the body is the document and there is no title
C21_ParseNoBlock ==
    ParseDone =>
      LET text == call.in.text
          k == FirstLine(text)
      IN  IF LeadingHeading(text)
          THEN /\ call.out.body = SubSeq(text, 1, k - 1) \o SubSeq(text, k + 1, Len(text))
               /\ call.out.extracted_title = Str(text[k].alt)
          ELSE /\ call.out.body = text
               /\ call.out.extracted_title = Absent

\* C21 amended: without a block, when the first line that is not blank is a
\* level-one heading, the body is what follows that heading and the empty
\* lines directly after it (the blank lines before the heading go too, a
\* line of spaces after the heading stays) and extracted_title is the
\* heading's text; without a leading heading the body is the document and
\* there is no title
C21_ParseNoBlockAmended ==
    ParseDone =>
      LET text == call.in.text
          k == FirstLine(text)
      IN  IF LeadingHeading(text)
          THEN /\ call.out.body = SubSeq(text, AfterHeading(text, k), Len(text))
               /\ call.out.extracted_title = Str(text[k].alt)
               /\ call.out.front_matter = NoFrontmatter
          ELSE /\ call.out.body = text
               /\ call.out.extracted_title = Absent
               /\ call.out.front_matter = NoFrontmatter

\* a document whose heading stands between two empty lines, with text after
\* them, has been parsed: only the text is left
C21_Witness ==
    /\ ParseDone
    /\ call.in.text = <<Blank, H1(T1), Blank, Text(<<"hello">>)>>
    /\ call.out.body = <<Text(<<"hello">>)>>
    /\ call.out.extracted_title = Str(T1)

-----------------------------------------------------------------------------
(* Claims about two invocations on one draft *)

TwoRunning == call.op = "two"

\* the locals of invocation i
Invocation(i) == IF call.in = i THEN Locals ELSE call.out

Parsed(l) == l.pc \notin {"main", "publish"} /\ l.failed_at # "parse"

Written(l) == "bundle_written" \in Range(l.events)

Deleted(l) == "draft_deleted" \in Range(l.events)

\* the invocation has left EnsureFrontMatter: it is in the review loop or
\* beyond, or it has exited
PastEnsure(l) ==
    l.pc \notin {"main", "publish", "needs_interactive", "collect", "write_back"}

\* C22 as stated: two invocations on one draft can both pass ParseDocument
\* and both write the bundle's index.md; whenever both have, at most one of
\* them has deleted the draft, and once both have exited the one that has
\* not deleted it has ended with a fatal error
C22_NoGuard ==
    (TwoRunning /\ Written(Invocation(1)) /\ Written(Invocation(2))) =>
      /\ ~(Deleted(Invocation(1)) /\ Deleted(Invocation(2)))
      /\ (Ended(Invocation(1)) /\ Ended(Invocation(2))) =>
            \E i \in {1, 2} : ~Deleted(Invocation(i)) /\ Invocation(i).pc = "error"

\* invocation i has deleted the draft, the draft is missing, and the other
\* invocation has left EnsureFrontMatter without having deleted it
Settled(i) ==
    /\ Deleted(Invocation(i))
    /\ ~exists(fs, draft_path)
    /\ PastEnsure(Invocation(3 - i))
    /\ ~Deleted(Invocation(3 - i))

\* C22 amended: once one invocation has deleted the draft while the other
\* has already left EnsureFrontMatter, the draft is never written again and
\* the other invocation never deletes it; if the other has written the
\* bundle's index.md, it ends with a fatal error.  (An invocation that is
\* still in EnsureFrontMatter then writes the draft back, and both delete.)
C22_NoGuardAmended ==
    /\ [][TwoRunning => \A i \in {1, 2} : Settled(i) => Settled(i)']_vars
    /\ [](TwoRunning =>
            \A i \in {1, 2} :
               (Settled(i) /\ Written(Invocation(3 - i)) /\ Ended(Invocation(3 - i)))
                  => Invocation(3 - i).pc = "error")

\* both invocations parsed the draft and wrote the bundle's index.md; the
\* first deleted the draft and ran to its end, the second died at its unlink
C22_Witness ==
    /\ TwoRunning
    /\ Parsed(Invocation(1)) /\ Parsed(Invocation(2))
    /\ Written(Invocation(1)) /\ Written(Invocation(2))
    /\ Settled(1)
    /\ Invocation(1).pc = "done"
    /\ Invocation(2).pc = "error" /\ Invocation(2).failed_at = "draft_unlink"

-----------------------------------------------------------------------------
(* Claims about the renames of a re-publish *)

RepublishDone == call.op = "republish" /\ pc = "done"

\* C23: after a re-publish, every image the archived source referenced
\* before the run is in the archive bundle, with the content it had, under
\* the name the rewritten source gives at the same place: no later
\* substitution has rewritten an earlier reference again and no move has
\* overwritten an image another reference needs
C23_RenamesKeepImages ==
    RepublishDone =>
      LET before == read(fs0, draft_path).text
          after == read(fs, draft_path).text
      IN  /\ Len(after) = Len(before)
          /\ \A i \in 1..Len(before) :
                (before[i].t = "img" /\ exists(fs0, resolve(draft_dir, before[i].path)))
                   => LET named == Path(draft_dir.root, draft_dir.sub, after[i].path)
                      IN  /\ exists(fs, named)
                          /\ read(fs, named) = read(fs0, resolve(draft_dir, before[i].path))

-----------------------------------------------------------------------------
(* Claims about the fields the collection does not prompt for *)

\* the fields collect_frontmatter has no prompt for
UNPROMPTED == FIELDS \ {"title", "date", "categories", "tags"}

\* the front matter the draft carried when the program started
Existing0 == parse(read(fs0, draft_path)).front_matter

\* a publish that wrote the bundle has run to its end on a draft with
\* well-formed front matter
PublishedWithExisting ==
    /\ pc = "done"
    /\ ~dry_run
    /\ exists(fs0, draft_path)
    /\ read(fs0, draft_path).has_block /\ ~read(fs0, draft_path).bad
    /\ ~Existing0.isNone
    /\ exists(fs, BundleIndex(post_slug))

\* C24: every key of the draft's front matter other than title, date,
\* categories and tags (type, draft, an extra key) has the same value in the
\* front matter of the published bundle, on the validated path, on the
\* interactive path and after edits in the review loop
C24_UnpromptedKeysPreserved ==
    PublishedWithExisting =>
      \A f \in UNPROMPTED :
         Existing0.d[f] # Absent =>
            parse(read(fs, BundleIndex(post_slug))).front_matter.d[f] = Existing0.d[f]

====
